---------------------------- MODULE Spec2Model ----------------------------
(***************************************************************************)
(* TORQ Tech News: the subscriber store (subscribers_storage.py and the    *)
(* /api/subscribe route of subscription_routes.py) and the content-cache   *)
(* refresh (multi_source_aggregator.py).                                   *)
(*                                                                         *)
(* Strings are sequences of one-character strings, so that strip(),        *)
(* lower(), len() and the e-mail pattern are computed character by         *)
(* character.                                                              *)
(***************************************************************************)
EXTENDS Integers, Sequences, FiniteSets, TLC

(***************************************************************************)
(* Characters and str helpers                                              *)
(***************************************************************************)
UpperSeq == <<"A","B","C","D","E","F","G","H","I","J","K","L","M",
              "N","O","P","Q","R","S","T","U","V","W","X","Y","Z">>

LowerSeq == <<"a","b","c","d","e","f","g","h","i","j","k","l","m",
              "n","o","p","q","r","s","t","u","v","w","x","y","z">>

UpperLetters == {UpperSeq[i] : i \in 1..Len(UpperSeq)}

LowerLetters == {LowerSeq[i] : i \in 1..Len(LowerSeq)}

Digits == {"0","1","2","3","4","5","6","7","8","9"}

AlNum == UpperLetters \cup LowerLetters \cup Digits

\* The characters str.strip() removes (ASCII whitespace).
Whitespace == {" ", "\t", "\n", "\r"}

\* str.lower() on one character.
LowerChar(c) ==
    IF c \in UpperLetters
    THEN LowerSeq[CHOOSE i \in 1..Len(UpperSeq) : UpperSeq[i] = c]
    ELSE c

\* str.lower()
Lower(s) == [i \in 1..Len(s) |-> LowerChar(s[i])]

RECURSIVE LStrip(_)
LStrip(s) ==
    IF s = <<>> THEN s
    ELSE IF Head(s) \in Whitespace THEN LStrip(Tail(s)) ELSE s

RECURSIVE RStrip(_)
RStrip(s) ==
    IF s = <<>> THEN s
    ELSE IF s[Len(s)] \in Whitespace THEN RStrip(SubSeq(s, 1, Len(s) - 1)) ELSE s

\* str.strip()
Strip(s) == RStrip(LStrip(s))

\* c repeated n times
Rep(c, n) == [i \in 1..n |-> c]

(***************************************************************************)
(* SubscribersStorage.EMAIL_REGEX                                          *)
(*   ^[a-zA-Z0-9.!#$%&'*+/=?^_`{|}~-]+                                     *)
(*   @[a-zA-Z0-9](?:[a-zA-Z0-9-]{0,61}[a-zA-Z0-9])?                        *)
(*   (?:\.[a-zA-Z0-9](?:[a-zA-Z0-9-]{0,61}[a-zA-Z0-9])?)*$                 *)
(***************************************************************************)
\* The characters of the local part (the grave accent, which a TLA+ string
\* cannot hold, is left out: no input of the model contains it).
LocalChars ==
    AlNum \cup {".", "!", "#", "$", "%", "&", "'", "*", "+", "/", "=", "?",
                "^", "_", "{", "|", "}", "~", "-"}

\* The longest label the pattern takes: 1 + 61 + 1 characters.
MaxLabelLen == 63

\* [a-zA-Z0-9](?:[a-zA-Z0-9-]{0,61}[a-zA-Z0-9])?
IsLabel(l) ==
    /\ Len(l) >= 1
    /\ Len(l) <= MaxLabelLen
    /\ l[1] \in AlNum
    /\ l[Len(l)] \in AlNum
    /\ \A i \in 1..Len(l) : l[i] \in AlNum \cup {"-"}

\* label(\.label)* : every maximal dot-free run of d is a label.
IsDomain(d) ==
    LET n == Len(d)
        dots == {0, n + 1} \cup {i \in 1..n : d[i] = "."}
    IN  /\ n >= 1
        /\ \A i \in dots : \A j \in dots :
              (i < j /\ \A k \in dots : ~(i < k /\ k < j))
                  => IsLabel(SubSeq(d, i + 1, j - 1))

\* The pattern between ^ and the end of the string.
RegexCore(s) ==
    \E k \in 1..Len(s) :
        /\ s[k] = "@"
        /\ k > 1
        /\ \A i \in 1..(k - 1) : s[i] \in LocalChars
        /\ IsDomain(SubSeq(s, k + 1, Len(s)))

\* EMAIL_REGEX.match(s): '$' also matches just before one trailing newline.
EmailRegexMatch(s) ==
    \/ RegexCore(s)
    \/ /\ Len(s) >= 1
       /\ s[Len(s)] = "\n"
       /\ RegexCore(SubSeq(s, 1, Len(s) - 1))

\* The length cap of validate_email.
MaxEmailLen == 254

Rejected(msg) == [ok |-> FALSE, error |-> msg, email |-> <<>>]

Accepted(e) == [ok |-> TRUE, error |-> "", email |-> e]

\* A buggy validate_email that forgets lower(): normalisation only strips.
ValidateEmailNoLower(email) ==
    IF email = <<>> THEN Rejected("Email address is required")
    ELSE LET email_normalized == Strip(email)
         IN  IF ~EmailRegexMatch(email_normalized)
             THEN Rejected("Invalid email format")
             ELSE IF Len(email_normalized) > MaxEmailLen
                  THEN Rejected("Email address too long (max 254 characters)")
                  ELSE Accepted(email_normalized)

\* A buggy validate_email that forgets the length cap.
ValidateEmailNoCap(email) ==
    IF email = <<>> THEN Rejected("Email address is required")
    ELSE LET email_normalized == Lower(Strip(email))
         IN  IF ~EmailRegexMatch(email_normalized)
             THEN Rejected("Invalid email format")
             ELSE Accepted(email_normalized)

\* SubscribersStorage.validate_email: the normalized address, or the
\* ValidationError it raises.
ValidateEmail(email) ==
    IF email = <<>> THEN Rejected("Email address is required")
    ELSE LET email_normalized == Lower(Strip(email))
         IN  IF ~EmailRegexMatch(email_normalized)
             THEN Rejected("Invalid email format")
             ELSE IF Len(email_normalized) > MaxEmailLen
                  THEN Rejected("Email address too long (max 254 characters)")
                  ELSE Accepted(email_normalized)

\* SubscribersStorage.extract_domain: email.split('@')[1]
ExtractDomain(email) ==
    LET ats == {i \in 1..Len(email) : email[i] = "@"}
        first == CHOOSE i \in ats : \A j \in ats : i <= j
        rest == {j \in ats : j > first}
        stop == IF rest = {} THEN Len(email) + 1
                ELSE CHOOSE j \in rest : \A k \in rest : j <= k
    IN  SubSeq(email, first + 1, stop - 1)


(***************************************************************************)
(* State                                                                   *)
(***************************************************************************)
VARIABLES
    use_azure,   \* SubscribersStorage.use_azure: the primary backend is configured
    azure,       \* the Azure table "subscribers": a sequence of entities
    sqlite,      \* the SQLite table subscribers: a sequence of rows
    funnel,      \* conversion_funnels: 'newsletter_subscribe' rows per session
    pc,          \* per request thread: where it is in the /api/subscribe handler
    cur,         \* per request thread: locals of SubscribersStorage.subscribe
    lastReq,     \* the latest request: its body and its immediate answer, if any
    ncalls,      \* requests made so far
    history,     \* log of storage-level operations, in the order they happened
    ncount,      \* get_subscriber_count calls made so far
    lastCount,   \* what the latest get_subscriber_count returned
    vIn,         \* validate_email harness: the two inputs
    vRes,        \* validate_email harness: their results
    vAgain,      \* validate_email harness: validate_email of the first result
    vArg,        \* validate_email harness: the address subscribe hands to a backend
    aggPc,       \* where the refresh cycle is in fetch_all_articles
    ncycles,     \* refresh cycles started so far
    all_articles,\* fetch_all_articles: its list all_articles
    techcrunch,  \* fetch_all_articles: its list techcrunch (same dict objects)
    cache_data,  \* fetch_all_articles: the document it builds and returns
    cacheFile,   \* the file data_cache.json
    outcomes,    \* per source: how its fetch went in this cycle, what it returned
    lastHealth,  \* the latest answer of /health
    autoPc,      \* where the background automation thread is
    untilDue,    \* checks left until the scheduled job is due
    autoResult,  \* how the latest run_update ended
    db,          \* analytics.db: the rows of its tables
    today,       \* the day CURRENT_TIMESTAMP and datetime('now') fall on
    nops,        \* number of requests to the analytics routes so far
    lastApi,     \* the latest answer of an analytics route
    lock,        \* the connection holding the write lock of analytics.db
    tpc,         \* per request thread: where it is in track_visitor
    served,      \* the page requests answered so far
    agent        \* ContentAgent: its latest call, and the page index.html

subVars == <<use_azure, azure, sqlite, funnel, pc, cur, lastReq, ncalls, history,
            ncount, lastCount>>

valVars == <<vIn, vRes, vAgain, vArg>>

autoVars == <<autoPc, untilDue, autoResult, agent>>
trackVars == <<db, today, nops, lastApi, lock, tpc, served>>
aggVars == <<aggPc, ncycles, all_articles, techcrunch, cache_data, cacheFile,
            outcomes, lastHealth, autoVars, trackVars>>

vars == <<use_azure, azure, sqlite, funnel, pc, cur, lastReq, ncalls, history,
          ncount, lastCount, vIn, vRes, vAgain, vArg,
          aggPc, ncycles, all_articles, techcrunch, cache_data, cacheFile,
          outcomes, lastHealth, autoPc, untilDue, autoResult,
          db, today, nops, lastApi, lock, tpc, served, agent>>

(***************************************************************************)
(* Bounds                                                                  *)
(***************************************************************************)
\* Concurrent request threads.
NumProcs == 2

\* Requests to /api/subscribe over a run.
MaxCalls == 3

\* External status changes to 'inactive' over a run.
MaxUnsub == 1

\* get_subscriber_count calls over a run.
MaxCount == 1

Procs == 1..NumProcs

(***************************************************************************)
(* Inputs of the subscriber store                                          *)
(***************************************************************************)
EmailAB == <<"a", "@", "b", ".", "c", "o">>

EmailABVariant == <<" ", "A", "@", "B", ".", "c", "o", "\n">>

EmailCD == <<"c", "@", "d">>

EmailNoAt == <<"a", "b", ".", "c", "o">>

\* 250 + 5 = 255 characters: matches the pattern, one over the cap.
EmailTooLong == Rep("a", MaxEmailLen - 4) \o <<"@", "b", ".", "c", "o">>

RawEmails == {EmailAB, EmailABVariant, EmailCD, EmailNoAt, EmailTooLong}

\* Request bodies of POST /api/subscribe, by what request.get_json() and
\* data.get('email') make of them.
\*   no_json_mime  Content-Type is not JSON
\*   malformed     Content-Type is JSON, the text does not parse
\*   null          the JSON document null
\*   empty_object  {}
\*   array         a non-empty JSON array
\*   no_email      an object without the key "email"
\*   email_null    {"email": null}
\*   email_empty   {"email": ""}
\*   email_number  {"email": 7}
\*   email_string  {"email": "<email>"}
BodyKinds == {"no_json_mime", "malformed", "null", "empty_object", "array",
              "no_email", "email_null", "email_empty", "email_number",
              "email_string"}

Bodies ==
    {[kind |-> k, email |-> <<>>] : k \in BodyKinds \ {"email_string"}}
        \cup {[kind |-> "email_string", email |-> e] : e \in RawEmails}

NoBody == [kind |-> "none", email |-> <<>>]

(***************************************************************************)
(* Exceptions and HTTP responses                                           *)
(***************************************************************************)
NoException == [type |-> "none", message |-> "", status_code |-> 0]

\* ValidationError(message, field, value)
ValidationError(msg) ==
    [type |-> "ValidationError", message |-> msg, status_code |-> 400]

\* DuplicateSubscriptionError(email)
DuplicateSubscriptionError ==
    [type |-> "DuplicateSubscriptionError",
     message |-> "Email already subscribed", status_code |-> 409]

\* SubscriptionError(message, code, status_code)
SubscriptionError(msg, status) ==
    [type |-> "SubscriptionError", message |-> msg, status_code |-> status]

\* Any exception that is not a SubscriptionError (AttributeError, the
\* framework's BadRequest / UnsupportedMediaType, an Azure SDK error).
OtherException(name) == [type |-> name, message |-> name, status_code |-> 0]

\* Exception classes that derive from SubscriptionError.
IsSubscriptionError(exc) ==
    exc.type \in {"SubscriptionError", "ValidationError", "DuplicateSubscriptionError"}

NoResp == [status |-> 0, success |-> FALSE, error |-> "", backend |-> ""]

Response(status, ok, msg, backend) ==
    [status |-> status, success |-> ok, error |-> msg, backend |-> backend]

\* The except clauses of the route: the response for an exception that left
\* the try block.
RouteExcept(exc) ==
    IF exc.type = "ValidationError"
    THEN Response(exc.status_code, FALSE, exc.message, "")
    ELSE IF exc.type = "DuplicateSubscriptionError"
    THEN Response(exc.status_code, FALSE, exc.message, "")
    ELSE IF exc.type = "SubscriptionError"
    THEN Response(exc.status_code, FALSE,
                  "Failed to process subscription. Please try again later.", "")
    ELSE Response(500, FALSE,
                  "An unexpected error occurred. Please try again later.", "")

\* The success response of the route.
RouteSuccess(backend) == Response(200, TRUE, "Successfully subscribed!", backend)

(***************************************************************************)
(* The route up to the first backend operation                             *)
(***************************************************************************)
\* request.get_json(): the parsed document, None, or an exception of the
\* framework. For a body whose Content-Type is not JSON the framework returns
\* None or raises, depending on its version (lenient).
GetJson(b, lenient) ==
    IF b.kind = "malformed" THEN [raised |-> TRUE, none |-> FALSE]
    ELSE IF b.kind = "no_json_mime" THEN [raised |-> ~lenient, none |-> lenient]
    ELSE [raised |-> FALSE, none |-> FALSE]

\* `not data` for the parsed document.
DataFalsy(b) == b.kind \in {"null", "empty_object"}

\* `not email` for data.get('email').
EmailFalsy(b) == b.kind \in {"no_email", "email_null", "email_empty"}

\* A subscribe that hands the raw address to the backend.
SubscribeBackendArgRaw(email, v) == email

\* subscribe: the address it hands to _subscribe_azure / _subscribe_sqlite
\* for an input that validate_email accepted (email_normalized).
SubscribeBackendArg(email, v) == v.email

Stop(r) == [proceed |-> FALSE, resp |-> r, email |-> <<>>]

Proceed(e) == [proceed |-> TRUE, resp |-> NoResp, email |-> e]

\* The route from request.get_json() to the end of validate_email: the
\* response it ends with, or the normalized address subscribe goes on with.
\* dbInitOk: _init_sqlite_storage succeeded in SubscribersStorage().
RouteEntry(b, lenient, dbInitOk) ==
    LET j == GetJson(b, lenient)
    IN  IF j.raised THEN Stop(RouteExcept(OtherException("HTTPException")))
        ELSE IF j.none \/ DataFalsy(b)
        THEN Stop(Response(400, FALSE, "Request body must be JSON", ""))
        ELSE IF b.kind = "array"
        THEN Stop(RouteExcept(OtherException("AttributeError")))
        ELSE IF EmailFalsy(b)
        THEN Stop(Response(400, FALSE, "Email address is required", ""))
        ELSE IF ~dbInitOk
        THEN Stop(RouteExcept(
                 SubscriptionError("Database initialization failed", 500)))
        ELSE IF b.kind = "email_number"
        THEN Stop(RouteExcept(OtherException("AttributeError")))
        ELSE LET v == ValidateEmail(b.email)
             IN  IF ~v.ok THEN Stop(RouteExcept(ValidationError(v.error)))
                 ELSE Proceed(SubscribeBackendArg(b.email, v))

(***************************************************************************)
(* The two stores                                                          *)
(***************************************************************************)
\* Positions of the entities with this key.
AzureFind(tbl, pk, rk) ==
    {i \in 1..Len(tbl) : tbl[i].PartitionKey = pk /\ tbl[i].RowKey = rk}

\* The entity _subscribe_azure builds (timestamp and ip_hash left out).
NewEntity(email) ==
    [PartitionKey |-> ExtractDomain(email), RowKey |-> email,
     email |-> email, status |-> "active"]

\* A table service that does not enforce its (PartitionKey, RowKey) key.
CreateEntityNoKey(tbl, entity) ==
    [raised |-> "none", table |-> Append(tbl, entity)]

\* TableClient.create_entity: ResourceExistsError when the key is taken.
CreateEntity(tbl, entity) ==
    IF AzureFind(tbl, entity.PartitionKey, entity.RowKey) # {}
    THEN [raised |-> "ResourceExistsError", table |-> tbl]
    ELSE [raised |-> "none", table |-> Append(tbl, entity)]

\* What leaves the inner try of _subscribe_azure ("Check if already
\* subscribed"): get_entity raises when the entity is missing, and the code
\* raises DuplicateSubscriptionError when it is active.
ExistenceCheckRaises(tbl, email) ==
    LET found == AzureFind(tbl, ExtractDomain(email), email)
    IN  IF found = {} THEN OtherException("ResourceNotFoundError")
        ELSE IF \E i \in found : tbl[i].status = "active"
        THEN DuplicateSubscriptionError
        ELSE NoException

\* `except Exception: pass` around that check: every exception class of the
\* program derives from Exception, DuplicateSubscriptionError included.
SwallowedByExceptException(exc) == exc.type # "none"

\* SELECT status FROM subscribers WHERE email = ?  (fetchone)
SqliteSelectStatus(tbl, email) ==
    LET found == {i \in 1..Len(tbl) : tbl[i].email = email}
    IN  IF found = {} THEN "none"
        ELSE tbl[CHOOSE i \in found : \A j \in found : i <= j].status

\* INSERT without the UNIQUE constraint on email.
SqliteInsertNoUnique(tbl, email) ==
    [raised |-> "none",
     table |-> Append(tbl, [id |-> Len(tbl) + 1, email |-> email,
                            email_domain |-> ExtractDomain(email),
                            status |-> "active"])]

\* INSERT INTO subscribers ...: IntegrityError on the UNIQUE column email.
SqliteInsert(tbl, email) ==
    IF \E i \in 1..Len(tbl) : tbl[i].email = email
    THEN [raised |-> "IntegrityError", table |-> tbl]
    ELSE [raised |-> "none",
          table |-> Append(tbl, [id |-> Len(tbl) + 1, email |-> email,
                                 email_domain |-> ExtractDomain(email),
                                 status |-> "active"])]

\* UPDATE subscribers SET status = 'active', ... WHERE email = ?
SqliteReactivate(tbl, email) ==
    [i \in 1..Len(tbl) |->
        IF tbl[i].email = email THEN [tbl[i] EXCEPT !.status = "active"]
        ELSE tbl[i]]

\* The rows with status 'active'.
ActiveCount(tbl) == Cardinality({i \in 1..Len(tbl) : tbl[i].status = "active"})

(***************************************************************************)
(* Exception handling of _subscribe_azure, _subscribe_sqlite and subscribe *)
(***************************************************************************)
\* The except clauses that close _subscribe_azure: what it raises for an
\* exception of its body.
AzureExcept(exc) ==
    IF exc.type = "ResourceExistsError" THEN DuplicateSubscriptionError
    ELSE IF exc.type = "DuplicateSubscriptionError" THEN exc
    ELSE SubscriptionError("Failed to save subscription to Azure", 500)

\* A subscribe that re-raises every failure of the primary backend.
SubscribeFallsBackNever(exc) == FALSE

\* subscribe, around _subscribe_azure: DuplicateSubscriptionError and
\* ValidationError are re-raised, any other exception falls back to SQLite.
SubscribeFallsBack(exc) ==
    exc.type \notin {"DuplicateSubscriptionError", "ValidationError"}

\* The except clauses that close _subscribe_sqlite.
SqliteExcept(exc) ==
    IF exc.type = "IntegrityError" THEN DuplicateSubscriptionError
    ELSE IF exc.type = "DuplicateSubscriptionError" THEN exc
    ELSE SubscriptionError("Failed to save subscription to database", 500)

\* subscribe: the first backend it calls.
SubscribeEntry(ua) == IF ua THEN "az_get" ELSE "sq_select"

(***************************************************************************)
(* History of storage-level operations                                     *)
(***************************************************************************)
\* op: "call" (subscribe entered with a valid address), "ret" (that request
\* was answered), "unsub" (a record was set inactive). A "ret" event carries the outcome
\* ("success", "duplicate", "error"), the HTTP status, storage_backend, the
\* backends the call issued operations on, whether it fell back, and the
\* exception the outcome comes from.
Event(op, p, e, res, be, st, touched, fb, origin) ==
    [op |-> op, proc |-> p, email |-> e, result |-> res, backend |-> be,
     status |-> st, touched |-> touched, fellBack |-> fb, origin |-> origin]

HistoryCount(op) == Cardinality({i \in 1..Len(history) : history[i].op = op})

NoCur == [email |-> <<>>, sel |-> "", backend |-> "", touched |-> {},
          fellBack |-> FALSE]

NoReq == [body |-> NoBody, resp |-> NoResp]

(***************************************************************************)
(* POST /api/subscribe, one action per backend operation                   *)
(***************************************************************************)
\* The request ends with an exception that reaches the route; touched: the
\* backends the call has issued operations on.
Raise(p, exc, origin, touched) ==
    /\ pc' = [pc EXCEPT ![p] = "idle"]
    /\ cur' = [cur EXCEPT ![p] = NoCur]
    /\ history' = Append(history,
           Event("ret", p, cur[p].email,
                 IF exc.type = "DuplicateSubscriptionError" THEN "duplicate"
                 ELSE "error",
                 "", RouteExcept(exc).status, touched, cur[p].fellBack,
                 origin))

\* An exception left _subscribe_azure's body: re-raised, or SQLite is tried.
AzureRaised(p, exc) ==
    LET out == AzureExcept(exc)
    IN  IF SubscribeFallsBack(out)
        THEN /\ pc' = [pc EXCEPT ![p] = "sq_select"]
             /\ cur' = [cur EXCEPT ![p].touched = @ \cup {"azure"},
                                   ![p].fellBack = TRUE]
             /\ history' = history
        ELSE Raise(p, out, exc.type, cur[p].touched \cup {"azure"})

\* The route from get_json to the end of validate_email, and subscribe's
\* choice of the first backend.
Request(p, b, lenient, dbInitOk) ==
    /\ pc[p] = "idle"
    /\ ncalls < MaxCalls
    /\ ncalls' = ncalls + 1
    /\ LET r == RouteEntry(b, lenient, dbInitOk)
       IN  /\ lastReq' = [body |-> b, resp |-> r.resp]
           /\ IF r.proceed
              THEN /\ pc' = [pc EXCEPT ![p] = SubscribeEntry(use_azure)]
                   /\ cur' = [cur EXCEPT ![p] = [NoCur EXCEPT !.email = r.email]]
                   /\ history' = Append(history,
                          Event("call", p, r.email, "", "", 0, {}, FALSE, ""))
              ELSE UNCHANGED <<pc, cur, history>>
    /\ UNCHANGED <<use_azure, azure, sqlite, funnel, ncount, lastCount>>
    /\ UNCHANGED <<valVars, aggVars>>

\* _subscribe_azure: the existence check (get_entity inside try/except).
AzGetEntity(p, azureOk) ==
    /\ pc[p] = "az_get"
    /\ LET exc == IF azureOk THEN ExistenceCheckRaises(azure, cur[p].email)
                  ELSE OtherException("ServiceRequestError")
       IN  IF exc.type = "none" \/ SwallowedByExceptException(exc)
           THEN /\ pc' = [pc EXCEPT ![p] = "az_create"]
                /\ cur' = [cur EXCEPT ![p].touched = @ \cup {"azure"}]
                /\ history' = history
           ELSE AzureRaised(p, exc)
    /\ UNCHANGED <<use_azure, azure, sqlite, funnel, lastReq, ncalls, ncount, lastCount>>
    /\ UNCHANGED <<valVars, aggVars>>

\* _subscribe_azure: create_entity.
AzCreateEntity(p, azureOk) ==
    /\ pc[p] = "az_create"
    /\ LET r == CreateEntity(azure, NewEntity(cur[p].email))
       IN  IF ~azureOk
           THEN /\ AzureRaised(p, OtherException("ServiceRequestError"))
                /\ azure' = azure
           ELSE IF r.raised # "none"
           THEN /\ AzureRaised(p, OtherException(r.raised))
                /\ azure' = azure
           ELSE /\ azure' = r.table
                /\ pc' = [pc EXCEPT ![p] = "track"]
                /\ cur' = [cur EXCEPT ![p].backend = "azure",
                                      ![p].touched = @ \cup {"azure"}]
                /\ history' = history
    /\ UNCHANGED <<use_azure, sqlite, funnel, lastReq, ncalls, ncount, lastCount>>
    /\ UNCHANGED <<valVars, aggVars>>

\* _subscribe_sqlite: connect and SELECT.
SqSelect(p, dbOk) ==
    /\ pc[p] = "sq_select"
    /\ LET st == SqliteSelectStatus(sqlite, cur[p].email)
           touched == cur[p].touched \cup {"sqlite"}
       IN  IF ~dbOk
           THEN Raise(p, SqliteExcept(OtherException("sqlite3.Error")),
                      "sqlite3.Error", touched)
           ELSE IF st = "active"
           THEN Raise(p, SqliteExcept(DuplicateSubscriptionError),
                      "DuplicateSubscriptionError", touched)
           ELSE /\ pc' = [pc EXCEPT ![p] = "sq_write"]
                /\ cur' = [cur EXCEPT ![p].touched = touched, ![p].sel = st]
                /\ history' = history
    /\ UNCHANGED <<use_azure, azure, sqlite, funnel, lastReq, ncalls, ncount, lastCount>>
    /\ UNCHANGED <<valVars, aggVars>>

\* _subscribe_sqlite: UPDATE (a record was found, not active) or INSERT
\* (none was found), and commit.
SqWrite(p, dbOk) ==
    /\ pc[p] = "sq_write"
    /\ LET r == SqliteInsert(sqlite, cur[p].email)
       IN  IF ~dbOk
           THEN /\ Raise(p, SqliteExcept(OtherException("sqlite3.Error")),
                         "sqlite3.Error", cur[p].touched)
                /\ sqlite' = sqlite
           ELSE IF cur[p].sel # "none"
           THEN /\ sqlite' = SqliteReactivate(sqlite, cur[p].email)
                /\ pc' = [pc EXCEPT ![p] = "track"]
                /\ cur' = [cur EXCEPT ![p].backend = "sqlite"]
                /\ history' = history
           ELSE IF r.raised # "none"
           THEN /\ Raise(p, SqliteExcept(OtherException(r.raised)),
                         r.raised, cur[p].touched)
                /\ sqlite' = sqlite
           ELSE /\ sqlite' = r.table
                /\ pc' = [pc EXCEPT ![p] = "track"]
                /\ cur' = [cur EXCEPT ![p].backend = "sqlite"]
                /\ history' = history
    /\ UNCHANGED <<use_azure, azure, funnel, lastReq, ncalls, ncount, lastCount>>
    /\ UNCHANGED <<valVars, aggVars>>

\* The funnel insert without the try/except around it.
FunnelInsertUncaught(raised) == ~raised

\* "except Exception as e: logger.warning(...)" around the funnel insert:
\* whether the route goes on to its success response.
FunnelInsertCaught(raised) == TRUE

\* The route after subscribe returned: the funnel row (when the request
\* carries a session cookie and the insert works) and the 200 response.
Track(p, cookie, insertOk) ==
    /\ pc[p] = "track"
    /\ funnel' = IF cookie /\ insertOk
                 THEN [funnel EXCEPT ![p] = @ + 1]
                 ELSE funnel
    /\ pc' = [pc EXCEPT ![p] = "idle"]
    /\ cur' = [cur EXCEPT ![p] = NoCur]
    /\ history' = Append(history,
           IF FunnelInsertCaught(cookie /\ ~insertOk)
           THEN Event("ret", p, cur[p].email, "success", cur[p].backend,
                      RouteSuccess(cur[p].backend).status, cur[p].touched,
                      cur[p].fellBack, "")
           ELSE Event("ret", p, cur[p].email, "error", "",
                      RouteExcept(OtherException("sqlite3.Error")).status,
                      cur[p].touched, cur[p].fellBack, "sqlite3.Error"))
    /\ UNCHANGED <<use_azure, azure, sqlite, lastReq, ncalls, ncount, lastCount>>
    /\ UNCHANGED <<valVars, aggVars>>

(***************************************************************************)
(* get_subscriber_count, and the status change made outside subscribe      *)
(***************************************************************************)
\* get_subscriber_count: the primary backend when it is configured and its
\* query works, else SQLite, else the error result.
GetSubscriberCountResult(ua, az, sq, azureOk, dbOk) ==
    IF ua /\ azureOk
    THEN [count |-> ActiveCount(az), backend |-> "azure", success |-> TRUE]
    ELSE IF dbOk
    THEN [count |-> ActiveCount(sq), backend |-> "sqlite", success |-> TRUE]
    ELSE [count |-> 0, backend |-> "error", success |-> FALSE]

NoCountResult == [count |-> 0, backend |-> "", success |-> FALSE]

GetSubscriberCount(azureOk, dbOk) ==
    /\ ncount < MaxCount
    /\ ncount' = ncount + 1
    /\ lastCount' = GetSubscriberCountResult(use_azure, azure, sqlite,
                                             azureOk, dbOk)
    /\ UNCHANGED <<use_azure, azure, sqlite, funnel, pc, cur, lastReq, ncalls,
                   history>>
    /\ UNCHANGED <<valVars, aggVars>>

SetInactive(tbl, email) ==
    [i \in 1..Len(tbl) |->
        IF tbl[i].email = email THEN [tbl[i] EXCEPT !.status = "inactive"]
        ELSE tbl[i]]

\* A record's status is set to 'inactive' in one store. subscribe never does
\* this; the record type allows it (status TEXT DEFAULT 'active') and
\* subscribe expects it ("Reactivate unsubscribed email").
Unsubscribe(be, e) ==
    /\ HistoryCount("unsub") < MaxUnsub
    /\ IF be = "azure"
       THEN /\ \E i \in 1..Len(azure) :
                   azure[i].email = e /\ azure[i].status = "active"
            /\ azure' = SetInactive(azure, e)
            /\ sqlite' = sqlite
       ELSE /\ \E i \in 1..Len(sqlite) :
                   sqlite[i].email = e /\ sqlite[i].status = "active"
            /\ sqlite' = SetInactive(sqlite, e)
            /\ azure' = azure
    /\ history' = Append(history, Event("unsub", 0, e, "", be, 0, {}, FALSE, ""))
    /\ UNCHANGED <<use_azure, funnel, pc, cur, lastReq, ncalls, ncount, lastCount>>
    /\ UNCHANGED <<valVars, aggVars>>

\* The addresses records can hold.
StoredEmails ==
    {azure[i].email : i \in 1..Len(azure)}
        \cup {sqlite[i].email : i \in 1..Len(sqlite)}

(***************************************************************************)
(* Specification of the subscriber store behind the route                  *)
(***************************************************************************)
\* No document: fetch_all_articles has not built one yet.
NoDoc == [kind |-> "none"]

\* data_cache.json does not exist.
MissingFile == [kind |-> "missing"]

\* data_cache.json right after open(..., 'w'): no content yet.
EmptyFile == [kind |-> "empty"]

\* init_data_cache: the document the application writes at start-up when
\* the file does not exist (a featured article and three articles).
DefaultCacheDoc ==
    [kind |-> "doc", timestamp |-> 0,
     featured |-> [title |-> "The Future of Digital Transformation in Enterprise",
                   category |-> "Digital Transformation"],
     articles |-> << [title |-> "AI Strategy: Building Competitive Advantage",
                      category |-> "AI Strategy"],
                     [title |-> "Leadership in the Age of Automation",
                      category |-> "Leadership"],
                     [title |-> "Sustainability Meets Innovation",
                      category |-> "Sustainability"] >>,
     ai_ml_articles |-> <<>>,
     sources_used |-> {}]

\* The four external sources, in the order fetch_all_articles asks them.
Sources == {"TechCrunch", "MIT Tech Review", "Hacker News", "MIT Sloan"}

\* No source was asked yet in this cycle.
NoOutcomes == [src \in Sources |-> [asked |-> FALSE, raised |-> FALSE, returned |-> 0]]

\* The background thread does not exist (the module was imported by a
\* server, or the operation is run by hand).
\* ContentAgent was not run: index.html is as shipped.
AgentIdle == [calls |-> 0, op |-> "none", limit |-> 0, fetched |-> <<>>,
              html_io |-> "none", html |-> [kind |-> "shipped", cards |-> <<>>],
              result |-> "none"]

AutoOff ==
    autoPc = "off" /\ untilDue = 0 /\ autoResult = "none" /\ agent = AgentIdle

\* The tables init_db creates.
AllTables == {"visitors", "page_views", "articles", "user_sessions",
              "user_events", "referrers", "devices", "conversion_funnels"}

\* init_db: the tables exist and hold no row.
EmptyDb == [tables |-> AllTables,
            visitors |-> <<>>, user_sessions |-> <<>>, user_events |-> <<>>,
            conversion_funnels |-> <<>>, referrers |-> <<>>,
            page_views |-> <<>>]

\* No analytics route was asked yet.
NoApi == [route |-> "none", status |-> 0, json |-> FALSE, at |-> 0,
          day |-> 0, session_id |-> "none", action |-> "none",
          report |-> <<>>, after |-> "none"]

\* A request thread outside track_visitor.
NoTrack == [pc |-> "idle", req |-> 0, session_id |-> "none",
            page_url |-> "none", referrer |-> "none"]

\* The application has started and no analytics route was asked.
TrackIdleOver(d) ==
    /\ db = d
    /\ today = 0
    /\ nops = 0
    /\ lastApi = NoApi
    /\ lock = 0
    /\ tpc = [p \in Procs |-> NoTrack]
    /\ served = {}

TrackIdle == TrackIdleOver(EmptyDb)

\* /health was not asked yet.
NoHealth == [status |-> 0, cache |-> "none", database |-> "none",
             article_count |-> 0, last_update |-> 0, during |-> "none"]

\* No refresh cycle is running; the application has written its default
\* cache document.
AggIdle ==
    /\ aggPc = "idle"
    /\ ncycles = 0
    /\ all_articles = <<>>
    /\ techcrunch = <<>>
    /\ cache_data = NoDoc
    /\ cacheFile = DefaultCacheDoc
    /\ outcomes = NoOutcomes
    /\ lastHealth = NoHealth
    /\ AutoOff
    /\ TrackIdle

ValIdle ==
    /\ vIn = <<>>
    /\ vRes = <<>>
    /\ vAgain = <<>>
    /\ vArg = <<>>

Init ==
    /\ use_azure \in BOOLEAN
    /\ azure = <<>>
    /\ sqlite = <<>>
    /\ funnel = [p \in Procs |-> 0]
    /\ pc = [p \in Procs |-> "idle"]
    /\ cur = [p \in Procs |-> NoCur]
    /\ lastReq = NoReq
    /\ ncalls = 0
    /\ history = <<>>
    /\ ncount = 0
    /\ lastCount = NoCountResult
    /\ ValIdle
    /\ AggIdle

\* One request at a time, with every kind of body, with and without a
\* session cookie; either store may fail at any operation; records may be
\* set inactive and the subscribers counted between requests or during one.
Next ==
    \/ \E b \in Bodies, lenient \in BOOLEAN, dbInitOk \in BOOLEAN :
          Request(1, b, lenient, dbInitOk)
    \/ \E azureOk \in BOOLEAN : AzGetEntity(1, azureOk)
    \/ \E azureOk \in BOOLEAN : AzCreateEntity(1, azureOk)
    \/ \E dbOk \in BOOLEAN : SqSelect(1, dbOk)
    \/ \E dbOk \in BOOLEAN : SqWrite(1, dbOk)
    \/ \E cookie \in BOOLEAN, insertOk \in BOOLEAN : Track(1, cookie, insertOk)
    \/ \E azureOk \in BOOLEAN, dbOk \in BOOLEAN : GetSubscriberCount(azureOk, dbOk)
    \/ \E be \in {"azure", "sqlite"}, e \in StoredEmails : Unsubscribe(be, e)

Spec == Init /\ [][Next]_vars

(***************************************************************************)
(* Specification of concurrent subscriptions                               *)
(***************************************************************************)
\* Bodies that carry a well-formed address.
StoreBodies ==
    {[kind |-> "email_string", email |-> e] :
        e \in {EmailAB, EmailABVariant, EmailCD}}

\* Concurrent request threads on the two stores: only subscribe calls, each
\* with a well-formed address and no session cookie; either store may fail
\* at any operation.
NextConcurrent ==
    \/ \E p \in Procs, b \in StoreBodies : Request(p, b, TRUE, TRUE)
    \/ \E p \in Procs, azureOk \in BOOLEAN : AzGetEntity(p, azureOk)
    \/ \E p \in Procs, azureOk \in BOOLEAN : AzCreateEntity(p, azureOk)
    \/ \E p \in Procs, dbOk \in BOOLEAN : SqSelect(p, dbOk)
    \/ \E p \in Procs, dbOk \in BOOLEAN : SqWrite(p, dbOk)
    \/ \E p \in Procs : Track(p, FALSE, TRUE)

SpecConcurrent == Init /\ [][NextConcurrent]_vars

(***************************************************************************)
(* Specification of validate_email as a function of its input              *)
(***************************************************************************)
\* Inputs: a core, with whitespace before and after it.
ValCores ==
    { <<>>,
      EmailAB,
      <<"A", "@", "b", ".", "C", "O">>,
      <<"a", "@", "B", ".", "c", "o">>,
      EmailCD,
      <<"C", "@", "D">>,
      EmailNoAt,
      <<"A", "B", ".", "c", "o">>,
      <<"a", "@">>,
      <<"@", "b">>,
      <<"a", "@", "b", ".", ".", "c">>,
      <<"a", "@", "-", "b">>,
      <<"a", "@", "b", "-">>,
      <<"a", "@", "b", "-", "c">>,
      <<"A", "@", "b", "-", "C">>,
      <<"a", " ", "b", "@", "c">>,
      <<"a", "@", "b", "@", "c">>,
      <<"a", "(", "@", "b">>,
      <<"x", "_", "1", "+", "y", "@", "b", "1", ".", "c">>,
      <<"X", "_", "1", "+", "Y", "@", "B", "1", ".", "c">>,
      Rep("a", MaxEmailLen - 5) \o <<"@", "b", ".", "c", "o">>,
      EmailTooLong,
      Rep("A", MaxEmailLen - 4) \o <<"@", "b", ".", "c", "o">>,
      <<"a", "@">> \o Rep("b", MaxLabelLen),
      <<"a", "@">> \o Rep("b", MaxLabelLen + 1),
      <<"A", "@">> \o Rep("B", MaxLabelLen + 1) }

ValLeftPads == {<<>>, <<" ">>, <<"\t", " ">>}

ValRightPads == {<<>>, <<"\n">>, <<" ", "\r">>}

ValInputs ==
    {l \o c \o r : l \in ValLeftPads, c \in ValCores, r \in ValRightPads}

ValInit ==
    /\ vIn \in ValInputs \X ValInputs
    /\ vRes = <<>>
    /\ vAgain = <<>>
    /\ vArg = <<>>
    /\ use_azure = FALSE
    /\ azure = <<>>
    /\ sqlite = <<>>
    /\ funnel = [p \in Procs |-> 0]
    /\ pc = [p \in Procs |-> "idle"]
    /\ cur = [p \in Procs |-> NoCur]
    /\ lastReq = NoReq
    /\ ncalls = 0
    /\ history = <<>>
    /\ ncount = 0
    /\ lastCount = NoCountResult
    /\ AggIdle

\* validate_email on both inputs.
ValValidate ==
    /\ vRes = <<>>
    /\ vRes' = <<ValidateEmail(vIn[1]), ValidateEmail(vIn[2])>>
    /\ UNCHANGED <<vIn, vAgain, vArg>>
    /\ UNCHANGED <<subVars, aggVars>>

\* validate_email on the address it returned for the first input.
ValRevalidate ==
    /\ vRes # <<>>
    /\ vRes[1].ok
    /\ vAgain = <<>>
    /\ vAgain' = <<ValidateEmail(vRes[1].email)>>
    /\ UNCHANGED <<vIn, vRes, vArg>>
    /\ UNCHANGED <<subVars, aggVars>>

\* subscribe going on to a backend with the first input.
ValSubscribe ==
    /\ vRes # <<>>
    /\ vRes[1].ok
    /\ vArg = <<>>
    /\ vArg' = <<SubscribeBackendArg(vIn[1], vRes[1])>>
    /\ UNCHANGED <<vIn, vRes, vAgain>>
    /\ UNCHANGED <<subVars, aggVars>>

ValNext == ValValidate \/ ValRevalidate \/ ValSubscribe

SpecVal == ValInit /\ [][ValNext]_vars

(***************************************************************************)
(* multi_source_aggregator.py: articles and the four sources               *)
(***************************************************************************)
\* Article elements a fetched page yields at most.
MaxParsed == 2

\* Links whose full-text extraction fails in one refresh cycle, at most.
MaxExtractFail == 1

\* Refresh cycles over a run.
MaxCycles == 1

\* fetch_all_articles: the limit it passes to each fetch function.
TechcrunchLimit == 3

MitTechLimit == 2

HackernewsLimit == 2

MitSloanLimit == 6

\* articles = all_articles[:6]
GridSize == 6

\* ai_articles = [...][:3]
AiArticlesSize == 3

Min(a, b) == IF a <= b THEN a ELSE b

\* list[:n]
Take(list, n) == SubSeq(list, 1, Min(n, Len(list)))

\* The dict has no 'slug' key.
NoSlug == [prefix |-> "", n |-> 0]

\* An article dict. title: the pool it comes from, its number in the pool
\* and whether it contains "Machine"; full_text: "<absent>" until the
\* extraction step sets it; slug: NoSlug or what _extract_slug returned.
Article(source, category, pool, n, machine, link) ==
    [source |-> source, category |-> category,
     title |-> [pool |-> pool, n |-> n, machine |-> machine],
     link |-> link, full_text |-> "<absent>", author_title |-> "<absent>",
     slug |-> NoSlug, id |-> 0]

\* What a source answers: requests.get / raise_for_status / the parser
\* raised, or the page was fetched and yielded `parsed` usable elements
\* whose titles do or do not contain "Machine".
FetchOutcomes(limit) ==
    [raised : {TRUE}, parsed : {0}, machine : {FALSE}]
        \cup [raised : {FALSE}, parsed : 0..Min(limit, MaxParsed),
              machine : BOOLEAN]

\* _extract_slug for the i-th story or article of a source: "hn-<id>" from
\* a Hacker News item URL, the last path segment of a MIT Sloan article URL.
ExtractSlug(prefix, i) == [prefix |-> prefix, n |-> i]

\* The dicts the parse loop of a fetch function appends; prefix: the start
\* of the slugs the loop computes, "" when it sets no 'slug'.
ParsedArticles(source, category, link, prefix, o) ==
    [i \in 1..o.parsed |->
        [Article(source, category, "page", i, o.machine, link)
            EXCEPT !.slug = IF prefix = "" THEN NoSlug ELSE ExtractSlug(prefix, i)]]

\* _generate_*_fallback(count): titles[i % len(titles)] for i in range(count)
GenerateFallback(source, category, link, poolSize, count) ==
    [i \in 1..count |->
        Article(source, category, "fallback", ((i - 1) % poolSize) + 1, FALSE,
                link)]

GenerateTechcrunchFallback(count) ==
    GenerateFallback("TechCrunch", "Startups & Funding",
                     "https://techcrunch.com", 3, count)

GenerateMitTechFallback(count) ==
    GenerateFallback("MIT Tech Review", "Innovation",
                     "https://www.technologyreview.com", 2, count)

GenerateHackernewsFallback(count) ==
    GenerateFallback("Hacker News", "Technology",
                     "https://news.ycombinator.com", 2, count)

FetchTechcrunchArticles(o, limit) ==
    Take(IF o.raised THEN GenerateTechcrunchFallback(limit)
         ELSE ParsedArticles("TechCrunch", "AI & Machine Learning",
                             "https://techcrunch.com/a", "", o),
         limit)

FetchMitTechReviewArticles(o, limit) ==
    Take(IF o.raised THEN GenerateMitTechFallback(limit)
         ELSE ParsedArticles("MIT Tech Review", "Innovation",
                             "https://www.technologyreview.com/a", "", o),
         limit)

FetchHackernewsArticles(o, limit) ==
    Take(IF o.raised THEN GenerateHackernewsFallback(limit)
         ELSE ParsedArticles("Hacker News", "Technology",
                             "https://news.ycombinator.com/item", "hn", o),
         limit)

\* fetch_mit_sloan_articles: its except clause only prints.
FetchMitSloanArticles(o, limit) ==
    Take(IF o.raised THEN <<>>
         ELSE ParsedArticles("MIT Sloan", "Leadership",
                             "https://sloanreview.mit.edu/article", "sloan", o),
         limit)

\* _get_default_featured
GetDefaultFeatured ==
    [Article("<absent>", "AI & Machine Learning", "default", 1, FALSE, "#")
        EXCEPT !.author_title = "Editorial Team"]

(***************************************************************************)
(* multi_source_aggregator.py: fetch_all_articles and save_cache           *)
(***************************************************************************)
\* The dicts appended to all_articles; id stands for the identity of the
\* dict object, which all_articles, techcrunch and the document share.
WithIds(list, base) ==
    [i \in 1..Len(list) |-> [list[i] EXCEPT !.id = base + i]]

\* The list `view` after its dict objects were changed through `list`.
SameObjects(view, list) ==
    [i \in 1..Len(view) |->
        list[CHOOSE k \in 1..Len(list) : list[k].id = view[i].id]]

\* article.get('link') and article['link'] not in ['#', '']
ExtractApplies(a) == a.link \notin {"#", ""}

\* The extraction loop: full_text is the text, or '' when
\* extract_article_content reports extracted = False.
ExtractAll(list, failing) ==
    [i \in 1..Len(list) |->
        IF ExtractApplies(list[i])
        THEN [list[i] EXCEPT !.full_text = IF i \in failing THEN "" ELSE "text"]
        ELSE list[i]]

Reverse(list) == [i \in 1..Len(list) |-> list[Len(list) + 1 - i]]

Rotate(list, r) ==
    [i \in 1..Len(list) |-> list[((i - 1 + r) % Len(list)) + 1]]

\* random.shuffle(all_articles): the rotations of the list and its reversal,
\* a family of the permutations the shuffle can produce.
ShuffleOutcomes(list) ==
    IF list = <<>> THEN {<<>>}
    ELSE {Rotate(list, r) : r \in 0..(Len(list) - 1)} \cup {Reverse(list)}

\* "AI" in a['category'], over the categories the fetch functions assign.
CategoryHasAI(c) == c \in {"AI & Machine Learning"}

\* "AI" in a['category'] or "Machine" in a['title']
IsAiArticle(a) == CategoryHasAI(a.category) \/ a.title.machine

\* featured['author_title'] = "Tech Analyst": featured is all_articles[0]
\* itself when the list is not empty.
MarkFeatured(list) ==
    IF list = <<>> THEN list
    ELSE [list EXCEPT ![1].author_title = "Tech Analyst"]

Featured(list) ==
    IF list # <<>> THEN MarkFeatured(list)[1]
    ELSE [GetDefaultFeatured EXCEPT !.author_title = "Tech Analyst"]

\* ai_articles, filled up from techcrunch when it has fewer than three.
AiArticles(list, tc) ==
    LET ai == Take(SelectSeq(list, IsAiArticle), AiArticlesSize)
    IN  IF Len(ai) < AiArticlesSize
        THEN ai \o Take(tc, AiArticlesSize - Len(ai))
        ELSE ai

\* cache_data with 'articles' holding the whole list instead of
\* all_articles[:6].
CacheDataUnsliced(list, tc, stamp) ==
    [kind |-> "doc", timestamp |-> stamp,
     featured |-> Featured(list),
     articles |-> MarkFeatured(list),
     ai_ml_articles |-> AiArticles(MarkFeatured(list),
                                   SameObjects(tc, MarkFeatured(list))),
     sources_used |-> {list[i].source : i \in 1..Len(list)}]

\* cache_data as fetch_all_articles builds it from the shuffled list.
CacheData(list, tc, stamp) ==
    [kind |-> "doc", timestamp |-> stamp,
     featured |-> Featured(list),
     articles |-> Take(MarkFeatured(list), GridSize),
     ai_ml_articles |-> AiArticles(MarkFeatured(list),
                                   SameObjects(tc, MarkFeatured(list))),
     sources_used |-> {list[i].source : i \in 1..Len(list)}]

\* The limit fetch_all_articles passes to the fetch function of a source.
LimitOf(src) ==
    CASE src = "TechCrunch"      -> TechcrunchLimit
      [] src = "MIT Tech Review" -> MitTechLimit
      [] src = "Hacker News"     -> HackernewsLimit
      [] OTHER                   -> MitSloanLimit

\* Without the try/except of the fetch functions and of
\* extract_article_content, a failure would leave fetch_all_articles.
PropagatesUncaught(failed) == failed

\* except Exception in the fetch functions and in extract_article_content:
\* no failure of a source or of an extraction leaves fetch_all_articles.
Propagates(failed) == FALSE

\* The source was asked with outcome o and its fetch function returned r.
Asked(log, src, o, r) ==
    [log EXCEPT ![src] = [asked |-> TRUE, raised |-> o.raised,
                          returned |-> Len(r)]]

\* A refresh cycle starts (background thread, /api/manual-update or main).
AggStart ==
    /\ aggPc = "idle"
    /\ ncycles < MaxCycles
    /\ ncycles' = ncycles + 1
    /\ aggPc' = "techcrunch"
    /\ all_articles' = <<>>
    /\ techcrunch' = <<>>
    /\ cache_data' = NoDoc
    /\ outcomes' = NoOutcomes
    /\ UNCHANGED <<cacheFile, lastHealth, autoVars, trackVars>>
    /\ UNCHANGED <<subVars, valVars>>

\* techcrunch = self.fetch_techcrunch_articles(3); all_articles.extend(...)
FetchTechcrunch(o) ==
    /\ aggPc = "techcrunch"
    /\ LET r == WithIds(FetchTechcrunchArticles(o, TechcrunchLimit),
                        Len(all_articles))
       IN  /\ techcrunch' = r
           /\ all_articles' = all_articles \o r
           /\ outcomes' = Asked(outcomes, "TechCrunch", o, r)
    /\ aggPc' = IF Propagates(o.raised) THEN "raised" ELSE "mit_tech"
    /\ UNCHANGED <<ncycles, cache_data, cacheFile, lastHealth, autoVars, trackVars>>
    /\ UNCHANGED <<subVars, valVars>>

\* mit_tech = self.fetch_mit_tech_review_articles(2); all_articles.extend(...)
FetchMitTechReview(o) ==
    /\ aggPc = "mit_tech"
    /\ LET r == WithIds(FetchMitTechReviewArticles(o, MitTechLimit),
                        Len(all_articles))
       IN  /\ all_articles' = all_articles \o r
           /\ outcomes' = Asked(outcomes, "MIT Tech Review", o, r)
    /\ aggPc' = IF Propagates(o.raised) THEN "raised" ELSE "hackernews"
    /\ UNCHANGED <<ncycles, techcrunch, cache_data, cacheFile, lastHealth, autoVars, trackVars>>
    /\ UNCHANGED <<subVars, valVars>>

\* hackernews = self.fetch_hackernews_articles(2); all_articles.extend(...)
FetchHackernews(o) ==
    /\ aggPc = "hackernews"
    /\ LET r == WithIds(FetchHackernewsArticles(o, HackernewsLimit),
                        Len(all_articles))
       IN  /\ all_articles' = all_articles \o r
           /\ outcomes' = Asked(outcomes, "Hacker News", o, r)
    /\ aggPc' = IF Propagates(o.raised) THEN "raised" ELSE "mit_sloan"
    /\ UNCHANGED <<ncycles, techcrunch, cache_data, cacheFile, lastHealth, autoVars, trackVars>>
    /\ UNCHANGED <<subVars, valVars>>

\* mit_sloan = self.fetch_mit_sloan_articles(6); all_articles.extend(...)
FetchMitSloan(o) ==
    /\ aggPc = "mit_sloan"
    /\ LET r == WithIds(FetchMitSloanArticles(o, MitSloanLimit),
                        Len(all_articles))
       IN  /\ all_articles' = all_articles \o r
           /\ outcomes' = Asked(outcomes, "MIT Sloan", o, r)
    /\ aggPc' = IF Propagates(o.raised) THEN "raised" ELSE "extract"
    /\ UNCHANGED <<ncycles, techcrunch, cache_data, cacheFile, lastHealth, autoVars, trackVars>>
    /\ UNCHANGED <<subVars, valVars>>

\* if extract_content: the loop over all_articles; failing: the positions
\* whose extraction fails.
ExtractContent(failing) ==
    /\ aggPc = "extract"
    /\ Cardinality(failing) <= MaxExtractFail
    /\ all_articles' = ExtractAll(all_articles, failing)
    /\ techcrunch' = SameObjects(techcrunch, all_articles')
    /\ aggPc' = IF Propagates(failing # {}) THEN "raised" ELSE "assemble"
    /\ UNCHANGED <<ncycles, cache_data, cacheFile, outcomes, lastHealth, autoVars, trackVars>>
    /\ UNCHANGED <<subVars, valVars>>

\* From random.shuffle to the cache_data dict.
Assemble(shuffled) ==
    /\ aggPc = "assemble"
    /\ all_articles' = MarkFeatured(shuffled)
    /\ techcrunch' = SameObjects(techcrunch, all_articles')
    /\ cache_data' = CacheData(shuffled, techcrunch, ncycles)
    /\ aggPc' = "save_open"
    /\ UNCHANGED <<ncycles, cacheFile, outcomes, lastHealth, autoVars, trackVars>>
    /\ UNCHANGED <<subVars, valVars>>

\* save_cache: open(self.data_cache, 'w') truncates the file, or raises.
SaveCacheOpen(ioOk) ==
    /\ aggPc = "save_open"
    /\ IF ioOk
       THEN /\ cacheFile' = EmptyFile
            /\ aggPc' = "save_dump"
       ELSE /\ cacheFile' = cacheFile
            /\ aggPc' = "raised"
    /\ UNCHANGED <<ncycles, all_articles, techcrunch, cache_data, outcomes,
                   lastHealth, autoVars, trackVars>>
    /\ UNCHANGED <<subVars, valVars>>

\* save_cache: json.dump writes the document, or raises and leaves the
\* file without a complete document.
SaveCacheDump(ioOk) ==
    /\ aggPc = "save_dump"
    /\ IF ioOk
       THEN /\ cacheFile' = cache_data
            /\ aggPc' = "done"
       ELSE /\ cacheFile' = EmptyFile
            /\ aggPc' = "raised"
    /\ UNCHANGED <<ncycles, all_articles, techcrunch, cache_data, outcomes,
                   lastHealth, autoVars, trackVars>>
    /\ UNCHANGED <<subVars, valVars>>

\* fetch_all_articles returned cache_data ("done") or raised; the caller
\* goes on.
AggReturn ==
    /\ aggPc \in {"done", "raised"}
    /\ aggPc' = "idle"
    /\ UNCHANGED <<ncycles, all_articles, techcrunch, cache_data, cacheFile,
                   outcomes, lastHealth, autoVars, trackVars>>
    /\ UNCHANGED <<subVars, valVars>>

(***************************************************************************)
(* Specification of the content-cache refresh                              *)
(***************************************************************************)
\* The application has started (default document written), or the
\* aggregator runs on its own in a directory without a cache file.
AggInitOver(d) ==
    /\ aggPc = "idle"
    /\ ncycles = 0
    /\ all_articles = <<>>
    /\ techcrunch = <<>>
    /\ cache_data = NoDoc
    /\ cacheFile \in {MissingFile, DefaultCacheDoc}
    /\ outcomes = NoOutcomes
    /\ lastHealth = NoHealth
    /\ AutoOff
    /\ TrackIdleOver(d)
    /\ use_azure = FALSE
    /\ azure = <<>>
    /\ sqlite = <<>>
    /\ funnel = [p \in Procs |-> 0]
    /\ pc = [p \in Procs |-> "idle"]
    /\ cur = [p \in Procs |-> NoCur]
    /\ lastReq = NoReq
    /\ ncalls = 0
    /\ history = <<>>
    /\ ncount = 0
    /\ lastCount = NoCountResult
    /\ ValIdle

AggInit == AggInitOver(EmptyDb)

AggNext ==
    \/ AggStart
    \/ \E o \in FetchOutcomes(TechcrunchLimit) : FetchTechcrunch(o)
    \/ \E o \in FetchOutcomes(MitTechLimit) : FetchMitTechReview(o)
    \/ \E o \in FetchOutcomes(HackernewsLimit) : FetchHackernews(o)
    \/ \E o \in FetchOutcomes(MitSloanLimit) : FetchMitSloan(o)
    \/ \E failing \in SUBSET (1..Len(all_articles)) : ExtractContent(failing)
    \/ \E shuffled \in ShuffleOutcomes(all_articles) : Assemble(shuffled)
    \/ \E ioOk \in BOOLEAN : SaveCacheOpen(ioOk)
    \/ \E ioOk \in BOOLEAN : SaveCacheDump(ioOk)
    \/ AggReturn

SpecAgg == AggInit /\ [][AggNext]_vars

(***************************************************************************)
(* app.py: health_check, a reader of the cache file                        *)
(***************************************************************************)
\* open(DATA_CACHE_PATH) and json.load(f): the exception raised, if any.
JsonLoadRaises(file) ==
    CASE file.kind = "missing" -> "FileNotFoundError"
      [] file.kind = "empty"   -> "JSONDecodeError"
      [] OTHER                 -> "none"

\* The status health_check answers: 200 from the try block, 503 from
\* except FileNotFoundError, 500 from except Exception.
HealthStatus(file, dbOk) ==
    CASE JsonLoadRaises(file) = "FileNotFoundError" -> 503
      [] JsonLoadRaises(file) # "none"              -> 500
      [] ~dbOk                                      -> 500
      [] OTHER                                      -> 200

\* GET /health; dbOk: sqlite3.connect and the SELECT COUNT(*) succeed.
HealthCheck(dbOk) ==
    /\ lastHealth' =
          [status |-> HealthStatus(cacheFile, dbOk),
           cache |-> cacheFile.kind,
           database |-> IF JsonLoadRaises(cacheFile) # "none" THEN "none"
                        ELSE IF dbOk THEN "ok" ELSE "error",
           article_count |-> IF HealthStatus(cacheFile, dbOk) = 200
                             THEN Len(cacheFile.articles) ELSE 0,
           last_update |-> IF HealthStatus(cacheFile, dbOk) = 200
                           THEN cacheFile.timestamp ELSE 0,
           during |-> aggPc]
    /\ UNCHANGED <<aggPc, ncycles, all_articles, techcrunch, cache_data,
                   cacheFile, outcomes, autoVars, trackVars>>
    /\ UNCHANGED <<subVars, valVars>>

\* The sources answer with a failure or with a full page of plain titles.
HealthOutcomes(limit) ==
    {o \in FetchOutcomes(limit) :
        o.raised \/ (o.parsed = Min(limit, MaxParsed) /\ ~o.machine)}

\* The application runs: init_data_cache has written the default document.
HealthInit ==
    /\ AggInit
    /\ cacheFile = DefaultCacheDoc

HealthNext ==
    \/ AggStart
    \/ \E o \in HealthOutcomes(TechcrunchLimit) : FetchTechcrunch(o)
    \/ \E o \in HealthOutcomes(MitTechLimit) : FetchMitTechReview(o)
    \/ \E o \in HealthOutcomes(HackernewsLimit) : FetchHackernews(o)
    \/ \E o \in HealthOutcomes(MitSloanLimit) : FetchMitSloan(o)
    \/ ExtractContent({})
    \/ \E shuffled \in ShuffleOutcomes(all_articles) : Assemble(shuffled)
    \/ \E ioOk \in BOOLEAN : SaveCacheOpen(ioOk)
    \/ \E ioOk \in BOOLEAN : SaveCacheDump(ioOk)
    \/ AggReturn
    \/ \E dbOk \in BOOLEAN : HealthCheck(dbOk)

SpecHealth == HealthInit /\ [][HealthNext]_vars

(***************************************************************************)
(* app.py: auto_update_content, the background automation thread           *)
(***************************************************************************)
\* schedule.every(5).hours
IntervalHours == 5

\* time.sleep(60) between two schedule.run_pending()
CheckSeconds == 60

\* The number of sleeps after which a job scheduled now is due.
ChecksPerInterval == (IntervalHours * 3600) \div CheckSeconds

\* The thread runs at most this many cycles in the model.
MaxAutoCycles == 2

\* Without the try/except of run_update the exception leaves it.
RunUpdateLetsThrough(raised) == ~raised

\* run_update: except Exception as e: print(...)
RunUpdateCatches(raised) == TRUE

\* What the sources answer in one cycle: all of them fail (no network), or
\* all of them answer with a full page.
AutoOutcomes ==
    {[src \in Sources |-> [raised |-> TRUE, parsed |-> 0, machine |-> FALSE]],
     [src \in Sources |-> [raised |-> FALSE,
                           parsed |-> Min(LimitOf(src), MaxParsed),
                           machine |-> FALSE]]}

\* all_articles and techcrunch after the four fetches and the extraction
\* loop (every extraction succeeding).
Collected(os) ==
    LET tc == WithIds(FetchTechcrunchArticles(os["TechCrunch"],
                                              TechcrunchLimit), 0)
        a2 == tc \o WithIds(FetchMitTechReviewArticles(os["MIT Tech Review"],
                                                       MitTechLimit), Len(tc))
        a3 == a2 \o WithIds(FetchHackernewsArticles(os["Hacker News"],
                                                    HackernewsLimit), Len(a2))
        a4 == a3 \o WithIds(FetchMitSloanArticles(os["MIT Sloan"],
                                                  MitSloanLimit), Len(a3))
        ex == ExtractAll(a4, {})
    IN  [all |-> ex, techcrunch |-> SameObjects(tc, ex),
         log |-> [src \in Sources |->
                    [asked |-> TRUE, raised |-> os[src].raised,
                     returned |-> Cardinality({i \in 1..Len(ex) :
                                                 ex[i].source = src})]]]

\* What the cycles of the model collect and the documents they can build
\* from it, one per outcome of the shuffle.
CycleTable ==
    [os \in AutoOutcomes |->
        [log |-> Collected(os).log,
         docs |-> [stamp \in 1..MaxAutoCycles |->
                     {CacheData(shuffled, Collected(os).techcrunch, stamp) :
                         shuffled \in ShuffleOutcomes(Collected(os).all)}]]]

CycleDocs(os, stamp) ==
    IF stamp \in 1..MaxAutoCycles THEN CycleTable[os].docs[stamp] ELSE {}

\* run_update(): one call of fetch_all_articles from its first line to its
\* return or raise; doc: the document it builds; io: "ok", or the step of
\* save_cache that fails.
RunUpdate(os, doc, io, thenPc) ==
    /\ ncycles < MaxAutoCycles
    /\ ncycles' = ncycles + 1
    /\ outcomes' = CycleTable[os].log
    /\ cacheFile' = CASE io = "ok"         -> doc
                       [] io = "open_fails" -> cacheFile
                       [] OTHER             -> EmptyFile
    /\ autoResult' = IF io = "ok" THEN "ok" ELSE "failed"
    /\ autoPc' = IF RunUpdateCatches(io # "ok") THEN thenPc ELSE "dead"
    /\ UNCHANGED <<aggPc, all_articles, techcrunch, cache_data, lastHealth>>
    /\ UNCHANGED <<subVars, valVars, trackVars, agent>>

SaveOutcomes == {"ok", "open_fails", "dump_fails"}

\* threading.Thread(target=auto_update_content).start(), import schedule,
\* schedule.every(5).hours.do(run_update)
StartBackgroundAutomation ==
    /\ autoPc = "off"
    /\ autoPc' = "scheduled"
    /\ untilDue' = ChecksPerInterval
    /\ UNCHANGED <<aggPc, ncycles, all_articles, techcrunch, cache_data,
                   cacheFile, outcomes, lastHealth, autoResult>>
    /\ UNCHANGED <<subVars, valVars, trackVars, agent>>

\* "Run once immediately on startup": run_update()
InitialUpdate(os, doc, io) ==
    /\ autoPc = "scheduled"
    /\ RunUpdate(os, doc, io, "loop")
    /\ UNCHANGED untilDue

\* schedule.run_pending(): runs the job when it is due and schedules its
\* next run.
RunPending(os, doc, io) ==
    /\ autoPc = "loop"
    /\ untilDue = 0
    /\ RunUpdate(os, doc, io, "sleep")
    /\ untilDue' = ChecksPerInterval

\* schedule.run_pending() with no job due.
NothingPending ==
    /\ autoPc = "loop"
    /\ untilDue > 0
    /\ autoPc' = "sleep"
    /\ UNCHANGED <<aggPc, ncycles, all_articles, techcrunch, cache_data,
                   cacheFile, outcomes, lastHealth, untilDue, autoResult>>
    /\ UNCHANGED <<subVars, valVars, trackVars, agent>>

\* time.sleep(60)
Sleep ==
    /\ autoPc = "sleep"
    /\ autoPc' = "loop"
    /\ untilDue' = IF untilDue > 0 THEN untilDue - 1 ELSE 0
    /\ UNCHANGED <<aggPc, ncycles, all_articles, techcrunch, cache_data,
                   cacheFile, outcomes, lastHealth, autoResult>>
    /\ UNCHANGED <<subVars, valVars, trackVars, agent>>

AutoInit == HealthInit

AutoNext ==
    \/ StartBackgroundAutomation
    \/ \E os \in AutoOutcomes, io \in SaveOutcomes :
          \E doc \in CycleDocs(os, ncycles + 1) : InitialUpdate(os, doc, io)
    \/ \E os \in AutoOutcomes, io \in SaveOutcomes :
          \E doc \in CycleDocs(os, ncycles + 1) : RunPending(os, doc, io)
    \/ NothingPending
    \/ Sleep

\* The operating system schedules the thread again and again.
SpecAuto == AutoInit /\ [][AutoNext]_vars /\ WF_vars(AutoNext)

(***************************************************************************)
(* automation_agent.py: ContentAgent                                       *)
(***************************************************************************)
\* len(topic_urls)
NumTopics == 6

\* soup.find_all('article', limit=3)
PerTopic == 3

\* run: self.fetch_articles(3), self.fetch_ai_ml_articles(3)
RunLimit == 3

\* fetch_articles is called with limits up to this one.
MaxLimit == 4

\* ContentAgent is called at most this many times.
MaxAgentCalls == 1

\* How the request of one topic page goes: -1 when requests.get or
\* raise_for_status raises, else the number of the page's article elements
\* (of at most PerTopic) that _parse_article turns into an article.  A page
\* none of whose elements parse adds what a failed request adds: nothing.
TopicOutcomes == {-1, 1, PerTopic}

\* One outcome per topic page.
TopicRuns == [1..NumTopics -> TopicOutcomes]

\* How the request of the AI/ML page goes: -1 or the number of parsed
\* elements among the first 'limit' ones.
AiMlOutcomes == {-1, 0, 1, RunLimit}

\* update_html_page: "ok", or the step at which it raises and returns False.
HtmlOutcomes == {"ok", "read_fails", "write_fails"}

\* _parse_article of the i-th element of a topic page
LiveArticle(t, i) == [origin |-> "live", topic |-> t, n |-> i]

\* _generate_fallback_articles(count)
GenerateFallbackArticles(count) ==
    [i \in 1..count |-> [origin |-> "fallback", topic |-> 0, n |-> i]]

\* _generate_ai_ml_fallback(count)
GenerateAiMlFallback(count) ==
    [i \in 1..count |-> [origin |-> "ai_fallback", topic |-> 0, n |-> i]]

\* fetch_articles: the loop over topic_urls, from topic t on; both loops
\* stop as soon as len(articles) >= limit.
RECURSIVE GatherTopics(_, _, _, _)
GatherTopics(articles, t, limit, topics) ==
    IF t > NumTopics \/ Len(articles) >= limit THEN articles
    ELSE LET parsed == IF topics[t] < 0 THEN 0 ELSE topics[t]
             taken  == Min(parsed, limit - Len(articles))
         IN  GatherTopics(articles \o [i \in 1..taken |-> LiveArticle(t, i)],
                          t + 1, limit, topics)

\* fetch_articles without "if len(articles) < limit: ... extend(fallback)".
FetchArticlesUnfilled(limit, topics) ==
    Take(GatherTopics(<<>>, 1, limit, topics), limit)

\* fetch_articles(limit)
FetchArticles(limit, topics) ==
    LET articles == GatherTopics(<<>>, 1, limit, topics)
        filled   == IF Len(articles) < limit
                    THEN articles \o GenerateFallbackArticles(limit - Len(articles))
                    ELSE articles
    IN  Take(filled, limit)

\* fetch_ai_ml_articles(limit): the fallback is used only when the request
\* raises.
FetchAiMlArticles(limit, outcome) ==
    IF outcome < 0 THEN Take(GenerateAiMlFallback(limit), limit)
    ELSE Take([i \in 1..outcome |-> [origin |-> "ai_live", topic |-> 0, n |-> i]],
              limit)

\* fetch_featured_article(): the parsed hero article, or the fixed fallback.
FetchFeaturedArticle(live) ==
    [origin |-> IF live THEN "live" ELSE "fallback", topic |-> 0, n |-> 0]

\* A direct call of fetch_articles(limit).
CallFetchArticles(limit, topics) ==
    /\ agent.calls < MaxAgentCalls
    /\ agent' = [agent EXCEPT !.calls = @ + 1, !.op = "fetch_articles",
                              !.limit = limit,
                              !.fetched = FetchArticles(limit, topics),
                              !.html_io = "none", !.result = "returned"]
    /\ UNCHANGED <<aggPc, ncycles, all_articles, techcrunch, cache_data,
                   cacheFile, outcomes, lastHealth, autoPc, untilDue, autoResult>>
    /\ UNCHANGED <<subVars, valVars, trackVars>>

\* ContentAgent.run(): the three fetches, update_html_page, and save_cache
\* when the page was updated.  io: how save_cache goes.
AgentRun(topics, ai, live, html_io, io) ==
    /\ agent.calls < MaxAgentCalls
    /\ LET featured == FetchFeaturedArticle(live)
           ai_ml_articles == FetchAiMlArticles(RunLimit, ai)
           general_articles == FetchArticles(RunLimit, topics)
           articles == ai_ml_articles \o general_articles
           success == html_io = "ok"
           doc == [kind |-> "doc", timestamp |-> agent.calls + 1,
                   featured |-> featured, articles |-> articles,
                   ai_ml_articles |-> ai_ml_articles]
       IN  /\ agent' = [agent EXCEPT
                 !.calls = @ + 1, !.op = "run", !.limit = RunLimit,
                 !.fetched = general_articles,
                 !.html_io = IF articles = <<>> THEN "none" ELSE html_io,
                 !.html = CASE articles = <<>>         -> @
                            [] html_io = "ok"          ->
                                   [kind |-> "updated", cards |-> articles]
                            [] html_io = "write_fails" ->
                                   [kind |-> "empty", cards |-> <<>>]
                            [] OTHER                   -> @,
                 !.result = CASE articles = <<>>  -> "no_articles"
                              [] ~success         -> "false"
                              [] io = "ok"        -> "true"
                              [] OTHER            -> "raised"]
           /\ cacheFile' = CASE articles = <<>> \/ ~success -> cacheFile
                             [] io = "ok"                   -> doc
                             [] io = "open_fails"           -> cacheFile
                             [] OTHER                       -> EmptyFile
    /\ UNCHANGED <<aggPc, ncycles, all_articles, techcrunch, cache_data,
                   outcomes, lastHealth, autoPc, untilDue, autoResult>>
    /\ UNCHANGED <<subVars, valVars, trackVars>>

AgentNext ==
    \/ \E limit \in 0..MaxLimit, topics \in TopicRuns :
          CallFetchArticles(limit, topics)
    \/ \E topics \in TopicRuns, ai \in AiMlOutcomes, live \in BOOLEAN,
          html_io \in HtmlOutcomes, io \in SaveOutcomes :
          AgentRun(topics, ai, live, html_io, io)

\* The agent is run beside the application, or on its own in a directory
\* without a cache file.
SpecAgent == AggInit /\ [][AgentNext]_vars

(***************************************************************************)
(* app.py: the analytics recorder and its reports                          *)
(***************************************************************************)
\* The analytics routes are asked at most this many times.
MaxRequests == 3

\* The clock advances at most this many days.
MaxDays == 1

\* datetime('now', '-1 day') in /api/analytics
DayWindow == 1

\* datetime('now', '-7 days') in /api/analytics/advanced
WeekWindow == 7

\* request.cookies.get('session_id', sha256(ip + user_agent + hour)[:16])
SessionIds == {"s1", "s2"}

\* home and topic_page
Pages == {"/", "/topics/technology"}

\* request.headers.get('Referer', 'direct')
Referrers == {"direct", "https://example.org/"}

\* The rows of user_sessions with this session_id.
SessionRows(d, sid) ==
    {i \in 1..Len(d.user_sessions) : d.user_sessions[i].session_id = sid}

\* INSERT INTO user_sessions: total_pages, duration_seconds, bounce_rate and
\* is_active take their column defaults.
NewSession(sid, page, referrer, day) ==
    [session_id |-> sid, start_time |-> day, total_pages |-> 0,
     duration_seconds |-> 0, bounce_rate |-> 0, screen_resolution |-> "",
     referrer_url |-> referrer, landing_page |-> page, is_active |-> 1]

\* INSERT INTO visitors that replaces the rows of the table.
InsertVisitorOverwriting(rows, req, sid, page, day) ==
    <<[req |-> req, session_id |-> sid, page_url |-> page, timestamp |-> day]>>

\* INSERT INTO visitors (ip_hash, user_agent, page_url, session_id); req
\* names the request the row comes from.
InsertVisitor(rows, req, sid, page, day) ==
    Append(rows, [req |-> req, session_id |-> sid, page_url |-> page,
                  timestamp |-> day])

\* The referrers table after the SELECT and the UPDATE or INSERT.
CountReferrer(rows, referrer, page) ==
    IF \E i \in 1..Len(rows) :
          rows[i].referrer_url = referrer /\ rows[i].landing_page = page
    THEN [i \in 1..Len(rows) |->
            IF rows[i].referrer_url = referrer /\ rows[i].landing_page = page
            THEN [rows[i] EXCEPT !.count = @ + 1] ELSE rows[i]]
    ELSE Append(rows, [referrer_url |-> referrer, landing_page |-> page,
                       count |-> 1])

\* The transaction of track_visitor, from INSERT INTO visitors to commit.
TrackVisitorTxn(d, req, sid, page, referrer, day) ==
    LET v == InsertVisitor(d.visitors, req, sid, page, day)
    IN  IF SessionRows(d, sid) = {}
        THEN [d EXCEPT
                !.visitors = v,
                !.user_sessions = Append(@, NewSession(sid, page, referrer, day)),
                !.conversion_funnels =
                    IF page = "/"
                    THEN Append(@, [session_id |-> sid, funnel_step |-> "homepage",
                                    timestamp |-> day])
                    ELSE @,
                !.referrers =
                    IF referrer # "direct" THEN CountReferrer(@, referrer, page)
                    ELSE @]
        ELSE [d EXCEPT
                !.visitors = v,
                !.user_sessions =
                    [i \in 1..Len(d.user_sessions) |->
                        IF d.user_sessions[i].session_id = sid
                        THEN [d.user_sessions[i] EXCEPT !.total_pages = @ + 1]
                        ELSE d.user_sessions[i]]]

\* The JSON bodies sent to /api/track-event: an object, or JSON that is not
\* an object (null, a list), for which data.get raises AttributeError.
EventBodies ==
    [object : {TRUE}, session_id : SessionIds \cup {"none"},
     event_type : {"scroll_depth", "outbound_link", "none"},
     value : {"100", "50"}]
        \cup [object : {FALSE}, session_id : {"none"}, event_type : {"none"},
               value : {"50"}]

\* The JSON bodies sent to /api/track-session.
SessionBodies ==
    [object : {TRUE}, session_id : SessionIds \cup {"none"},
     action : {"start", "update", "end"}, duration : {30}]
        \cup [object : {FALSE}, session_id : {"none"}, action : {"start"},
               duration : {30}]

\* The transaction of track_event.
TrackEventTxn(d, data, day) ==
    [d EXCEPT
        !.user_events = Append(@, [session_id |-> data.session_id,
                                   event_type |-> data.event_type,
                                   value |-> data.value, timestamp |-> day]),
        !.conversion_funnels =
            IF data.event_type = "scroll_depth" /\ data.value = "100"
            THEN Append(@, [session_id |-> data.session_id,
                            funnel_step |-> "scroll_100", timestamp |-> day])
            ELSE IF data.event_type = "outbound_link"
            THEN Append(@, [session_id |-> data.session_id,
                            funnel_step |-> "external_click", timestamp |-> day])
            ELSE @]

\* bounce_rate = 1.0 if result[0] <= 1 else 0.0
BounceRate(total_pages) == IF total_pages <= 1 THEN 1 ELSE 0

\* A track_session whose 'start' creates the session row when there is
\* none and sets it active when there is one.
TrackSessionTxnStarting(d, data) ==
    LET rows == d.user_sessions
    IN  IF data.action # "start" THEN d
        ELSE IF SessionRows(d, data.session_id) = {}
        THEN [d EXCEPT !.user_sessions =
                 Append(rows, NewSession(data.session_id, "/", "direct", 0))]
        ELSE [d EXCEPT !.user_sessions =
                 [i \in 1..Len(rows) |->
                     IF rows[i].session_id = data.session_id
                     THEN [rows[i] EXCEPT !.is_active = 1] ELSE rows[i]]]

\* The transaction of track_session.
TrackSessionTxn(d, data) ==
    LET rows == d.user_sessions
    IN  [d EXCEPT !.user_sessions =
            [i \in 1..Len(rows) |->
                IF rows[i].session_id # data.session_id THEN rows[i]
                ELSE IF data.action = "end"
                THEN [rows[i] EXCEPT
                        !.duration_seconds = data.duration,
                        !.bounce_rate = BounceRate(rows[i].total_pages),
                        !.is_active = 0]
                ELSE IF data.action = "update"
                THEN [rows[i] EXCEPT !.duration_seconds = data.duration,
                                     !.screen_resolution = "1920x1080"]
                ELSE rows[i]]]

\* Sum of f over the sequence rows.
RECURSIVE SumOver(_, _)
SumOver(rows, field) ==
    IF rows = <<>> THEN 0
    ELSE rows[1][field] + SumOver(Tail(rows), field)

\* The counts /api/analytics answers.
AnalyticsReport(d, day) ==
    [visitors_24h |->
        Cardinality({d.visitors[i].session_id : i \in
            {k \in 1..Len(d.visitors) :
                d.visitors[k].timestamp > day - DayWindow}}),
     total_views |-> Len(d.visitors)]

\* The counts /api/analytics/advanced answers; AVG(bounce_rate) is the
\* quotient of bounce_sum and total_sessions_7d.
AdvancedReport(d, day) ==
    LET recent == SelectSeq(d.user_sessions,
                            LAMBDA r : r.start_time > day - WeekWindow)
    IN  [bounce_sum |-> SumOver(recent, "bounce_rate"),
         total_sessions_7d |-> Len(recent),
         active_sessions |->
             Len(SelectSeq(d.user_sessions, LAMBDA r : r.is_active = 1)),
         funnel |-> Len(d.conversion_funnels),
         events |-> Len(d.user_events)]

\* An answer of a route; after: the route asked before this one.
Api(route, status, json, sid, action, report) ==
    [route |-> route, status |-> status, json |-> json, at |-> nops + 1,
     day |-> today, session_id |-> sid, action |-> action, report |-> report,
     after |-> lastApi.route]

\* A report whose request is also written to user_events.
AfterReportLogged(d) ==
    [d EXCEPT !.user_events =
        Append(@, [session_id |-> "none", event_type |-> "report",
                   value |-> "50", timestamp |-> 0])]

\* The database after a report: the routes and TORQAnalyzer run SELECT
\* statements only and close the connection.
AfterReport(d) == d

\* GET / or /topics/<topic> with no other request open: track_visitor
\* (dbOk: no statement of it raises), the cache file is read, the page is
\* sent with the session cookie when track_visitor returned an id.
PageRequest(page, sid, referrer, dbOk) ==
    /\ nops < MaxRequests
    /\ lock = 0
    /\ nops' = nops + 1
    /\ db' = IF dbOk THEN TrackVisitorTxn(db, nops + 1, sid, page, referrer, today)
             ELSE db
    /\ lastApi' = Api(page, 200, FALSE, IF dbOk THEN sid ELSE "none", "none",
                      <<>>)
    /\ served' = served \cup {nops + 1}
    /\ UNCHANGED <<today, lock, tpc>>
    /\ UNCHANGED <<subVars, valVars, aggPc, ncycles, all_articles, techcrunch,
                   cache_data, cacheFile, outcomes, lastHealth, autoVars>>

\* POST /api/track-event
TrackEvent(data, dbOk) ==
    /\ nops < MaxRequests
    /\ nops' = nops + 1
    /\ LET status == CASE ~data.object -> 500
                        [] data.session_id = "none" \/ data.event_type = "none"
                             -> 400
                        [] ~dbOk -> 500
                        [] OTHER -> 200
       IN  /\ db' = IF status = 200 THEN TrackEventTxn(db, data, today) ELSE db
           /\ lastApi' = Api("/api/track-event", status, TRUE,
                             data.session_id, data.event_type, <<>>)
    /\ UNCHANGED <<today, lock, tpc, served>>
    /\ UNCHANGED <<subVars, valVars, aggPc, ncycles, all_articles, techcrunch,
                   cache_data, cacheFile, outcomes, lastHealth, autoVars>>

\* POST /api/track-session
TrackSession(data, dbOk) ==
    /\ nops < MaxRequests
    /\ nops' = nops + 1
    /\ LET status == CASE ~data.object -> 500
                        [] data.session_id = "none" -> 400
                        [] ~dbOk -> 500
                        [] OTHER -> 200
       IN  /\ db' = IF status = 200 THEN TrackSessionTxn(db, data) ELSE db
           /\ lastApi' = Api("/api/track-session", status, TRUE,
                             data.session_id, data.action, <<>>)
    /\ UNCHANGED <<today, lock, tpc, served>>
    /\ UNCHANGED <<subVars, valVars, aggPc, ncycles, all_articles, techcrunch,
                   cache_data, cacheFile, outcomes, lastHealth, autoVars>>

\* GET /api/analytics: no try/except; an exception of sqlite3 leaves the
\* view function and the framework answers with its own error page.
Analytics(dbOk) ==
    /\ nops < MaxRequests
    /\ nops' = nops + 1
    /\ lastApi' = IF dbOk
                  THEN Api("/api/analytics", 200, TRUE, "none", "none",
                           AnalyticsReport(db, today))
                  ELSE Api("/api/analytics", 500, FALSE, "none", "none", <<>>)
    /\ db' = IF dbOk THEN AfterReport(db) ELSE db
    /\ UNCHANGED <<today, lock, tpc, served>>
    /\ UNCHANGED <<subVars, valVars, aggPc, ncycles, all_articles, techcrunch,
                   cache_data, cacheFile, outcomes, lastHealth, autoVars>>

\* GET /api/analytics/advanced
AdvancedAnalytics(dbOk) ==
    /\ nops < MaxRequests
    /\ nops' = nops + 1
    /\ lastApi' = IF dbOk
                  THEN Api("/api/analytics/advanced", 200, TRUE, "none", "none",
                           AdvancedReport(db, today))
                  ELSE Api("/api/analytics/advanced", 500, TRUE, "none", "none",
                           <<>>)
    /\ db' = IF dbOk THEN AfterReport(db) ELSE db
    /\ UNCHANGED <<today, lock, tpc, served>>
    /\ UNCHANGED <<subVars, valVars, aggPc, ncycles, all_articles, techcrunch,
                   cache_data, cacheFile, outcomes, lastHealth, autoVars>>

\* A day passes.
Midnight ==
    /\ today < MaxDays
    /\ today' = today + 1
    /\ UNCHANGED <<db, nops, lastApi, lock, tpc, served>>
    /\ UNCHANGED <<subVars, valVars, aggPc, ncycles, all_articles, techcrunch,
                   cache_data, cacheFile, outcomes, lastHealth, autoVars>>

TrackInit == HealthInit

TrackNext ==
    \/ \E page \in Pages, sid \in SessionIds, referrer \in Referrers,
          dbOk \in BOOLEAN : PageRequest(page, sid, referrer, dbOk)
    \/ \E data \in EventBodies, dbOk \in BOOLEAN : TrackEvent(data, dbOk)
    \/ \E data \in SessionBodies, dbOk \in BOOLEAN : TrackSession(data, dbOk)
    \/ \E dbOk \in BOOLEAN : Analytics(dbOk)
    \/ \E dbOk \in BOOLEAN : AdvancedAnalytics(dbOk)
    \/ Midnight

SpecTrack == TrackInit /\ [][TrackNext]_vars

(***************************************************************************)
(* app.py: page requests served by concurrent threads                      *)
(***************************************************************************)
\* A thread enters home or topic_page and track_visitor: headers, session
\* id, sqlite3.connect.
VisitStart(p, page, sid, referrer) ==
    /\ tpc[p].pc = "idle"
    /\ nops < MaxRequests
    /\ nops' = nops + 1
    /\ tpc' = [tpc EXCEPT ![p] = [pc |-> "insert", req |-> nops + 1,
                                  session_id |-> sid, page_url |-> page,
                                  referrer |-> referrer]]
    /\ UNCHANGED <<db, today, lastApi, lock, served>>
    /\ UNCHANGED <<subVars, valVars, aggPc, ncycles, all_articles, techcrunch,
                   cache_data, cacheFile, outcomes, lastHealth, autoVars>>

\* INSERT INTO visitors starts the transaction and takes the write lock of
\* the database file.
VisitInsert(p) ==
    /\ tpc[p].pc = "insert"
    /\ lock = 0
    /\ lock' = p
    /\ tpc' = [tpc EXCEPT ![p].pc = "txn"]
    /\ UNCHANGED <<db, today, nops, lastApi, served>>
    /\ UNCHANGED <<subVars, valVars, aggPc, ncycles, all_articles, techcrunch,
                   cache_data, cacheFile, outcomes, lastHealth, autoVars>>

\* INSERT INTO visitors waits for the lock another connection holds until
\* the timeout of the connection: OperationalError, caught by the except
\* clause of track_visitor, which returns None; the page is sent without
\* a cookie.
VisitLocked(p) ==
    /\ tpc[p].pc = "insert"
    /\ lock \notin {0, p}
    /\ tpc' = [tpc EXCEPT ![p] = NoTrack]
    /\ served' = served \cup {tpc[p].req}
    /\ lastApi' = [Api(tpc[p].page_url, 200, FALSE, "none", "none", <<>>)
                      EXCEPT !.at = tpc[p].req]
    /\ UNCHANGED <<db, today, nops, lock>>
    /\ UNCHANGED <<subVars, valVars, aggPc, ncycles, all_articles, techcrunch,
                   cache_data, cacheFile, outcomes, lastHealth, autoVars>>

\* The rest of the transaction and conn.commit(), which releases the lock;
\* track_visitor returns the session id and the page is sent with the
\* cookie.
VisitCommit(p) ==
    /\ tpc[p].pc = "txn"
    /\ lock = p
    /\ db' = TrackVisitorTxn(db, tpc[p].req, tpc[p].session_id,
                             tpc[p].page_url, tpc[p].referrer, today)
    /\ lock' = 0
    /\ tpc' = [tpc EXCEPT ![p] = NoTrack]
    /\ served' = served \cup {tpc[p].req}
    /\ lastApi' = [Api(tpc[p].page_url, 200, FALSE, tpc[p].session_id, "none",
                       <<>>) EXCEPT !.at = tpc[p].req]
    /\ UNCHANGED <<today, nops>>
    /\ UNCHANGED <<subVars, valVars, aggPc, ncycles, all_articles, techcrunch,
                   cache_data, cacheFile, outcomes, lastHealth, autoVars>>

TrackConcurrentNext ==
    \/ \E p \in Procs, page \in Pages, sid \in SessionIds,
          referrer \in Referrers : VisitStart(p, page, sid, referrer)
    \/ \E p \in Procs : VisitInsert(p)
    \/ \E p \in Procs : VisitLocked(p)
    \/ \E p \in Procs : VisitCommit(p)

SpecTrackConcurrent == TrackInit /\ [][TrackConcurrentNext]_vars

(***************************************************************************)
(* app.py: the article page and its view counter                           *)
(***************************************************************************)
\* slug[:20]
SlugPrefixLen == 20

\* Slugs are sequences of characters.  Two slugs of more than SlugPrefixLen
\* characters that agree on the first SlugPrefixLen, and a short one.
SlugLongA == Rep("a", SlugPrefixLen) \o <<"-", "x">>
SlugLongB == Rep("a", SlugPrefixLen) \o <<"-", "y">>
SlugShort == <<"h", "n", "-", "1">>

\* The URLs asked: the text of the URL, which track_visitor stores as
\* page_url, and the characters of its <slug> part.
ArticleRequests ==
    { [url |-> "/article/aaaaaaaaaaaaaaaaaaaa-x",  raw |-> SlugLongA],
      [url |-> "/article/aaaaaaaaaaaaaaaaaaaa-z",
       raw |-> Rep("a", SlugPrefixLen) \o <<"-", "z">>],
      [url |-> "/article/-hn-1-", raw |-> <<"-">> \o SlugShort \o <<"-">>],
      [url |-> "/article/hn",     raw |-> <<"h", "n">>],
      [url |-> "/article/nope",   raw |-> <<"n", "o", "p", "e">>],
      [url |-> "/article/-",      raw |-> <<"-">>] }

\* The <slug> part of a URL that was asked.
RawSlugOf(url) == (CHOOSE r \in ArticleRequests : r.url = url).raw

\* slug.strip('-')
RECURSIVE StripDashes(_)
StripDashes(slug) ==
    IF slug = <<>> THEN slug
    ELSE IF Head(slug) = "-" THEN StripDashes(Tail(slug))
    ELSE IF slug[Len(slug)] = "-" THEN StripDashes(SubSeq(slug, 1, Len(slug) - 1))
    ELSE slug

\* str.startswith
StartsWith(text, prefix) ==
    Len(prefix) <= Len(text) /\ SubSeq(text, 1, Len(prefix)) = prefix

\* a.get('slug') == slug: None, for an entry without the field, equals no
\* string.
SlugEquals(a, slug) == "slug" \in DOMAIN a /\ a.slug = slug

\* a.get('slug', '').startswith(slug[:20])
SlugStartsWith(a, slug) ==
    StartsWith(IF "slug" \in DOMAIN a THEN a.slug ELSE <<>>,
               Take(slug, SlugPrefixLen))

\* next((a for a in articles if test(a)), None): the position of the first
\* such entry, 0 for None.
FirstOf(hits) == IF hits = {} THEN 0 ELSE CHOOSE i \in hits : \A j \in hits : i <= j

\* A document the refresh cycle wrote: the featured entry and the first and
\* third entries of the list are parsed articles carrying a slug, the second
\* one is a fallback entry, which carries none.
SluggedDoc ==
    [kind |-> "doc", timestamp |-> 1,
     featured |-> [title |-> "Featured", category |-> "Technology",
                   slug |-> SlugLongB],
     articles |-> << [title |-> "Long", category |-> "Technology",
                      slug |-> SlugLongA],
                     [title |-> "Fallback", category |-> "Business"],
                     [title |-> "Short", category |-> "Tech News",
                      slug |-> SlugShort] >>,
     ai_ml_articles |-> <<>>,
     sources_used |-> {"TechCrunch", "Hacker News"}]

\* What data_cache.json can hold when an article is asked: the document
\* written at start-up, whose entries carry no slug, a refreshed one, or
\* nothing that json.load accepts.
CacheFiles == {DefaultCacheDoc, SluggedDoc, EmptyFile}

\* article_detail from the load of the cache to "return 'Article not
\* found', 404": the entry it serves.
FindArticle(file, slug) ==
    LET loaded   == file.kind = "doc"
        articles == IF loaded THEN file.articles ELSE <<>>
        featured == IF loaded THEN file.featured ELSE [none |-> TRUE]
        isFeatured == loaded
        exact  == FirstOf({i \in 1..Len(articles) : SlugEquals(articles[i], slug)})
        prefix == FirstOf({i \in 1..Len(articles) :
                              SlugStartsWith(articles[i], slug)})
    IN  CASE isFeatured /\ SlugEquals(featured, slug) ->
                 [found |-> TRUE, stage |-> "exact", at |-> 0, article |-> featured]
          [] exact # 0 ->
                 [found |-> TRUE, stage |-> "exact", at |-> exact,
                  article |-> articles[exact]]
          [] isFeatured /\ SlugStartsWith(featured, slug) ->
                 [found |-> TRUE, stage |-> "prefix", at |-> 0, article |-> featured]
          [] prefix # 0 ->
                 [found |-> TRUE, stage |-> "prefix", at |-> prefix,
                  article |-> articles[prefix]]
          [] OTHER ->
                 [found |-> FALSE, stage |-> "none", at |-> 0,
                  article |-> [none |-> TRUE]]

\* The rows of page_views of an article id.
ViewRows(d, article_id) ==
    {i \in 1..Len(d.page_views) : d.page_views[i].article_id = article_id}

\* SELECT view_count FROM page_views WHERE article_id = ?; fetchone(): 0
\* stands for no row.
SelectViewCount(d, article_id) ==
    IF ViewRows(d, article_id) = {} THEN 0
    ELSE d.page_views[FirstOf(ViewRows(d, article_id))].view_count

\* track_article_view after the SELECT returned seen: the UPDATE or the
\* INSERT, the funnel row when the request carries a session cookie, and
\* the commit.
WriteArticleView(d, article_id, title, seen, cookie, sid, day) ==
    [d EXCEPT
        !.page_views =
            IF seen # 0
            THEN [i \in 1..Len(d.page_views) |->
                    IF d.page_views[i].article_id = article_id
                    THEN [d.page_views[i] EXCEPT !.view_count = seen + 1]
                    ELSE d.page_views[i]]
            ELSE Append(d.page_views,
                        [article_id |-> article_id, article_title |-> title,
                         view_count |-> 1]),
        !.conversion_funnels =
            IF cookie
            THEN Append(@, [session_id |-> sid, funnel_step |-> "article_view",
                            timestamp |-> day])
            ELSE @]

\* track_article_view(article_id, article_title) with no other connection
\* open.
TrackArticleViewTxn(d, article_id, title, cookie, sid, day) ==
    WriteArticleView(d, article_id, title, SelectViewCount(d, article_id),
                     cookie, sid, day)

\* What an article request was answered with.
Sent(r, slug, hit, sid, cookie) ==
    [url |-> r.url, slug |-> slug, found |-> hit.found, stage |-> hit.stage,
     at |-> hit.at, article |-> hit.article, session |-> sid, cookie |-> cookie]

\* GET /article/<slug> with no other request open.  sid: the session id
\* track_visitor uses, taken from the cookie when the request carries one
\* (cookie) and derived from address, user agent and hour otherwise; dbOk,
\* viewOk: no statement of track_visitor, of track_article_view raises.
ArticleDetail(r, sid, cookie, dbOk, viewOk) ==
    /\ nops < MaxRequests
    /\ lock = 0
    /\ nops' = nops + 1
    /\ LET visited == IF dbOk
                      THEN TrackVisitorTxn(db, nops + 1, sid, r.url, "direct", today)
                      ELSE db
           slug == StripDashes(r.raw)
           hit  == FindArticle(cacheFile, slug)
       IN  /\ db' = IF hit.found /\ viewOk
                    THEN TrackArticleViewTxn(visited, slug, hit.article.title,
                                             cookie, sid, today)
                    ELSE visited
           /\ lastApi' = Api("/article/<slug>", IF hit.found THEN 200 ELSE 404,
                             FALSE, IF dbOk THEN sid ELSE "none", "none",
                             Sent(r, slug, hit, sid, cookie))
    /\ served' = served \cup {nops + 1}
    /\ UNCHANGED <<today, lock, tpc>>
    /\ UNCHANGED <<subVars, valVars, aggPc, ncycles, all_articles, techcrunch,
                   cache_data, cacheFile, outcomes, lastHealth, autoVars>>

\* The refresh cycle, or a start of the application in an empty directory,
\* replaces data_cache.json.
CacheReplaced(file) ==
    /\ cacheFile # file
    /\ cacheFile' = file
    /\ UNCHANGED <<aggPc, ncycles, all_articles, techcrunch, cache_data,
                   outcomes, lastHealth, autoVars, trackVars>>
    /\ UNCHANGED <<subVars, valVars>>

ArticleNext ==
    \/ \E r \in ArticleRequests, sid \in SessionIds, cookie \in BOOLEAN,
          viewOk \in BOOLEAN : ArticleDetail(r, sid, cookie, TRUE, viewOk)
    \/ PageRequest("/", "s1", "direct", TRUE)
    \/ \E file \in CacheFiles : CacheReplaced(file)

SpecArticle == TrackInit /\ [][ArticleNext]_vars

(***************************************************************************)
(* app.py: article pages served by concurrent threads                      *)
(***************************************************************************)
\* The articles asked by the concurrent requests; all of them are in the
\* cache.
ViewRequests == {r \in ArticleRequests : r.raw \in {SlugLongA, <<"h", "n">>}}

\* A thread enters article_detail: track_visitor, the lookup in the cache
\* (the article is found) and, in track_article_view, sqlite3.connect.
ViewStart(p, r, sid, cookie) ==
    /\ tpc[p].pc = "idle"
    /\ nops < MaxRequests
    /\ lock = 0
    /\ FindArticle(cacheFile, StripDashes(r.raw)).found
    /\ nops' = nops + 1
    /\ db' = TrackVisitorTxn(db, nops + 1, sid, r.url, "direct", today)
    /\ tpc' = [tpc EXCEPT ![p] =
                 [pc |-> "select", req |-> nops + 1, session_id |-> sid,
                  page_url |-> r.url, referrer |-> "direct",
                  article_id |-> StripDashes(r.raw),
                  title |-> FindArticle(cacheFile, StripDashes(r.raw)).article.title,
                  cookie |-> cookie, seen |-> 0]]
    /\ UNCHANGED <<today, lastApi, lock, served>>
    /\ UNCHANGED <<subVars, valVars, aggPc, ncycles, all_articles, techcrunch,
                   cache_data, cacheFile, outcomes, lastHealth, autoVars>>

\* SELECT view_count ...; fetchone(): a read outside any transaction.
ViewSelect(p) ==
    /\ tpc[p].pc = "select"
    /\ tpc' = [tpc EXCEPT ![p].pc = "write",
                          ![p].seen = SelectViewCount(db, tpc[p].article_id)]
    /\ UNCHANGED <<db, today, nops, lastApi, lock, served>>
    /\ UNCHANGED <<subVars, valVars, aggPc, ncycles, all_articles, techcrunch,
                   cache_data, cacheFile, outcomes, lastHealth, autoVars>>

\* The UPDATE or INSERT starts the transaction and takes the write lock.
ViewWrite(p) ==
    /\ tpc[p].pc = "write"
    /\ lock = 0
    /\ lock' = p
    /\ tpc' = [tpc EXCEPT ![p].pc = "commit"]
    /\ UNCHANGED <<db, today, nops, lastApi, served>>
    /\ UNCHANGED <<subVars, valVars, aggPc, ncycles, all_articles, techcrunch,
                   cache_data, cacheFile, outcomes, lastHealth, autoVars>>

\* The UPDATE or INSERT waits for the lock another connection holds until
\* the timeout: OperationalError, printed by the except clause of
\* track_article_view; the page is sent all the same.
ViewLocked(p) ==
    /\ tpc[p].pc = "write"
    /\ lock \notin {0, p}
    /\ tpc' = [tpc EXCEPT ![p] = NoTrack]
    /\ served' = served \cup {tpc[p].req}
    /\ lastApi' = [Api("/article/<slug>", 200, FALSE, tpc[p].session_id, "none",
                       <<>>) EXCEPT !.at = tpc[p].req]
    /\ UNCHANGED <<db, today, nops, lock>>
    /\ UNCHANGED <<subVars, valVars, aggPc, ncycles, all_articles, techcrunch,
                   cache_data, cacheFile, outcomes, lastHealth, autoVars>>

\* The rest of track_article_view up to conn.commit(), which releases the
\* lock, and the page is sent.
ViewCommit(p) ==
    /\ tpc[p].pc = "commit"
    /\ lock = p
    /\ db' = WriteArticleView(db, tpc[p].article_id, tpc[p].title, tpc[p].seen,
                              tpc[p].cookie, tpc[p].session_id, today)
    /\ lock' = 0
    /\ tpc' = [tpc EXCEPT ![p] = NoTrack]
    /\ served' = served \cup {tpc[p].req}
    /\ lastApi' = [Api("/article/<slug>", 200, FALSE, tpc[p].session_id, "none",
                       <<>>) EXCEPT !.at = tpc[p].req]
    /\ UNCHANGED <<today, nops>>
    /\ UNCHANGED <<subVars, valVars, aggPc, ncycles, all_articles, techcrunch,
                   cache_data, cacheFile, outcomes, lastHealth, autoVars>>

ArticleConcurrentNext ==
    \/ \E p \in Procs, r \in ViewRequests, cookie \in BOOLEAN :
          ViewStart(p, r, "s1", cookie)
    \/ \E p \in Procs : ViewSelect(p)
    \/ \E p \in Procs : ViewWrite(p)
    \/ \E p \in Procs : ViewLocked(p)
    \/ \E p \in Procs : ViewCommit(p)
    \/ \E file \in {DefaultCacheDoc, SluggedDoc} : CacheReplaced(file)

SpecArticleConcurrent == TrackInit /\ [][ArticleConcurrentNext]_vars

(***************************************************************************)
(* analyze_data.py: TORQAnalyzer.get_conversion_funnel                     *)
(***************************************************************************)
\* The values of 'days' the analyzer is run with.
FunnelWindows == {DayWindow, WeekWindow}

\* SELECT funnel_step, COUNT(*) ... WHERE timestamp > datetime('now',
\* '-{} days') GROUP BY funnel_step; funnel.get(step, 0)
FunnelCount(d, day, days, step) ==
    Cardinality({i \in 1..Len(d.conversion_funnels) :
                    /\ d.conversion_funnels[i].funnel_step = step
                    /\ d.conversion_funnels[i].timestamp > day - days})

\* round((part / whole) * 100, 2) if whole > 0 else 0, in hundredths of a
\* percent; a tie goes to the even neighbour.
RoundedRate(part, whole) ==
    IF whole <= 0 THEN 0
    ELSE LET q == (part * 10000) \div whole
             r == (part * 10000) % whole
         IN  IF 2 * r > whole THEN q + 1
             ELSE IF 2 * r = whole THEN q + (q % 2)
             ELSE q

\* get_conversion_funnel(days)
GetConversionFunnel(d, day, days) ==
    LET homepage_visits == FunnelCount(d, day, days, "homepage")
        article_views   == FunnelCount(d, day, days, "article_view")
        scroll_100      == FunnelCount(d, day, days, "scroll_100")
        external_clicks == FunnelCount(d, day, days, "external_click")
    IN  IF homepage_visits > 0
        THEN [homepage_visits |-> homepage_visits,
              article_views |-> article_views,
              full_scrolls |-> scroll_100,
              external_clicks |-> external_clicks,
              homepage_to_article_rate |->
                  RoundedRate(article_views, homepage_visits),
              article_completion_rate |-> RoundedRate(scroll_100, article_views),
              external_click_rate |->
                  RoundedRate(external_clicks, article_views)]
        ELSE [homepage_visits |-> 0, article_views |-> 0, full_scrolls |-> 0,
              external_clicks |-> 0, homepage_to_article_rate |-> 0,
              article_completion_rate |-> 0, external_click_rate |-> 0]

\* The analyzer is run on the database of the application: connect(),
\* get_conversion_funnel(days), close().
ConversionFunnel(days) ==
    /\ lock = 0
    /\ lastApi' = [Api("get_conversion_funnel", 0, FALSE, "none", "none",
                       GetConversionFunnel(db, today, days))
                      EXCEPT !.at = nops, !.action = IF days = DayWindow
                                                     THEN "day" ELSE "week"]
    /\ db' = AfterReport(db)
    /\ UNCHANGED <<today, nops, lock, tpc, served>>
    /\ UNCHANGED <<subVars, valVars, aggPc, ncycles, all_articles, techcrunch,
                   cache_data, cacheFile, outcomes, lastHealth, autoVars>>

\* The recorder operations that write funnel rows, the clock, and the
\* analyzer.
FunnelNext ==
    \/ \E sid \in SessionIds : PageRequest("/", sid, "direct", TRUE)
    \/ \E r \in ViewRequests, sid \in SessionIds, cookie \in BOOLEAN :
          ArticleDetail(r, sid, cookie, TRUE, TRUE)
    \/ \E data \in EventBodies : TrackEvent(data, TRUE)
    \/ CacheReplaced(SluggedDoc)
    \/ Midnight
    \/ \E days \in FunnelWindows : ConversionFunnel(days)

SpecFunnel == TrackInit /\ [][FunnelNext]_vars

(***************************************************************************)
(* app.py: init_db and migrate_db                                          *)
(***************************************************************************)
\* analytics.db does not exist yet: sqlite3.connect creates an empty file.
FreshDb == [EmptyDb EXCEPT !.tables = {}]

\* A database written by a version of the application without the
\* advanced analytics tables, holding a visit.
LegacyDb ==
    [EmptyDb EXCEPT
        !.tables = {"visitors", "page_views", "articles"},
        !.visitors = <<[req |-> 0, session_id |-> "s1", page_url |-> "/",
                        timestamp |-> 0]>>]

\* Tables created by DROP TABLE and CREATE TABLE: their rows are lost.
RecreateTables(d) == EmptyDb

\* The CREATE TABLE IF NOT EXISTS and CREATE INDEX IF NOT EXISTS
\* statements of init_db.
CreateTables(d) == [d EXCEPT !.tables = @ \cup AllTables]

\* init_db()
InitDb ==
    /\ nops < MaxRequests
    /\ lock = 0
    /\ nops' = nops + 1
    /\ db' = CreateTables(db)
    /\ lastApi' = Api("init_db", 0, FALSE, "none", "none", <<>>)
    /\ UNCHANGED <<today, lock, tpc, served>>
    /\ UNCHANGED <<subVars, valVars, aggPc, ncycles, all_articles, techcrunch,
                   cache_data, cacheFile, outcomes, lastHealth, autoVars>>

\* migrate_db(): init_db when sqlite_master has no user_sessions table;
\* dbOk: the SELECT on sqlite_master does not raise.
MigrateDb(dbOk) ==
    /\ nops < MaxRequests
    /\ lock = 0
    /\ nops' = nops + 1
    /\ db' = IF dbOk /\ "user_sessions" \notin db.tables THEN CreateTables(db)
             ELSE db
    /\ lastApi' = Api("migrate_db", 0, FALSE, "none", "none", <<>>)
    /\ UNCHANGED <<today, lock, tpc, served>>
    /\ UNCHANGED <<subVars, valVars, aggPc, ncycles, all_articles, techcrunch,
                   cache_data, cacheFile, outcomes, lastHealth, autoVars>>

\* The routes are served once the module level init_db() has run.
Serving == db.tables = AllTables

\* The module is imported over no database, a legacy one or a current one.
InitDbInit ==
    \E d \in {FreshDb, LegacyDb, EmptyDb} :
        AggInitOver(d) /\ cacheFile = DefaultCacheDoc

InitDbNext ==
    \/ InitDb
    \/ \E dbOk \in BOOLEAN : MigrateDb(dbOk)
    \/ Serving /\ \E page \in Pages, sid \in SessionIds :
                     PageRequest(page, sid, "direct", TRUE)
    \/ Serving /\ \E data \in SessionBodies : TrackSession(data, TRUE)

SpecInitDb == InitDbInit /\ [][InitDbNext]_vars

(***************************************************************************)
(* Vocabulary of the properties                                            *)
(***************************************************************************)
\* x without its leading and trailing whitespace, by positions.
TrimmedCore(x) ==
    LET solid == {i \in 1..Len(x) : x[i] \notin Whitespace}
    IN  IF solid = {} THEN <<>>
        ELSE SubSeq(x, CHOOSE i \in solid : \A j \in solid : i <= j,
                       CHOOSE i \in solid : \A j \in solid : j <= i)

\* c and d are the same character, or the two cases of one letter.
SameLetter(c, d) ==
    \/ c = d
    \/ \E i \in 1..Len(UpperSeq) : {c, d} = {UpperSeq[i], LowerSeq[i]}

\* x and y differ only in letter case and in leading/trailing whitespace.
DifferOnlyInCaseOrPadding(x, y) ==
    LET u == TrimmedCore(x)
        v == TrimmedCore(y)
    IN  /\ Len(u) = Len(v)
        /\ \A i \in 1..Len(u) : SameLetter(u[i], v[i])

\* e has no upper-case letter and no whitespace at either end.
IsTrimmedLowerCase(e) ==
    /\ \A i \in 1..Len(e) : e[i] \notin UpperLetters
    /\ e # <<>> => (e[1] \notin Whitespace /\ e[Len(e)] \notin Whitespace)

(***************************************************************************)
(* C9                                                                      *)
(***************************************************************************)
\* C9: validate_email is insensitive to letter case and surrounding
\* whitespace. Two inputs that differ only in case or in leading/trailing
\* whitespace are both accepted or both rejected; accepted, they return the
\* same address, which is the input trimmed and lower-cased; validating a
\* returned address again returns it unchanged; and the address subscribe
\* hands to a backend is that returned address.
C9_CaseAndSpaceInsensitive ==
    /\ (vRes # <<>> /\ DifferOnlyInCaseOrPadding(vIn[1], vIn[2]))
          => /\ vRes[1].ok = vRes[2].ok
             /\ vRes[1].ok => vRes[1].email = vRes[2].email
    /\ vRes # <<>>
          => \A k \in {1, 2} :
                vRes[k].ok => /\ IsTrimmedLowerCase(vRes[k].email)
                              /\ DifferOnlyInCaseOrPadding(vIn[k], vRes[k].email)
    /\ vAgain # <<>> => (vAgain[1].ok /\ vAgain[1].email = vRes[1].email)
    /\ vArg # <<>> => vArg[1] = vRes[1].email

\* Two different accepted spellings of one address, of which the first has
\* upper-case letters and padding, validated, validated again and handed on.
C9_Witness ==
    /\ vRes # <<>>
    /\ vIn[1] # vIn[2]
    /\ DifferOnlyInCaseOrPadding(vIn[1], vIn[2])
    /\ vRes[1].ok
    /\ vRes[1].email # TrimmedCore(vIn[1])
    /\ TrimmedCore(vIn[1]) # vIn[1]
    /\ vAgain # <<>>
    /\ vArg # <<>>

(***************************************************************************)
(* Vocabulary of the properties about the history                          *)
(***************************************************************************)
\* The answered subscribe calls.
Rets == {i \in 1..Len(history) : history[i].op = "ret"}

\* The "call" event of the call answered at position j.
CallOf(j) ==
    LET calls == {k \in 1..(j - 1) : /\ history[k].op = "call"
                                      /\ history[k].proc = history[j].proc}
    IN  CHOOSE k \in calls : \A m \in calls : m <= k

\* The calls answered at i and at j, in this order, are consecutive
\* operations on one address: the second one starts after the first one was
\* answered, and nothing else happens to the address from the start of the
\* first one to the answer of the second one.
ConsecutiveOnSameAddress(i, j) ==
    /\ i < j
    /\ DifferOnlyInCaseOrPadding(history[i].email, history[j].email)
    /\ i < CallOf(j)
    /\ \A k \in (CallOf(i) + 1)..(j - 1) :
          history[k].email = history[j].email => k \in {i, CallOf(j)}

\* The store a call ended in.
ServedBy(ev) == IF "sqlite" \in ev.touched THEN "sqlite" ELSE "azure"

\* The records of an address in a store.
RecordsOf(tbl, e) == {i \in 1..Len(tbl) : tbl[i].email = e}

(***************************************************************************)
(* C1                                                                      *)
(***************************************************************************)
\* C1: of two consecutive subscribe calls for the same normalized address,
\* with no other operation on that address in between, the second one fails
\* with a duplicate error (HTTP 409) when the first one returned success,
\* whichever backend served the first call and whether or not the primary
\* backend is available at either call. (A storage error of the local
\* database at the second call is left aside.)
C1_SecondSubscribeIsDuplicate ==
    \A i \in Rets : \A j \in Rets :
        (/\ ConsecutiveOnSameAddress(i, j)
         /\ history[i].result = "success"
         /\ history[j].result # "error")
            => (history[j].result = "duplicate" /\ history[j].status = 409)

(***************************************************************************)
(* C2                                                                      *)
(***************************************************************************)
\* Every call so far was answered with success, the addresses are pairwise
\* distinct, and no record was changed in another way.
OnlyDistinctSuccessfulSubscribes ==
    /\ \A p \in Procs : pc[p] = "idle"
    /\ \A i \in 1..Len(history) : history[i].op \in {"call", "ret"}
    /\ \A i \in Rets : history[i].result = "success"
    /\ \A i \in Rets : \A j \in Rets :
          DifferOnlyInCaseOrPadding(history[i].email, history[j].email) => i = j

\* C2: starting from empty stores, after successful subscribe calls for N
\* pairwise distinct normalized addresses, a get_subscriber_count that
\* answers from the configured backend with success reports count = N, also
\* when some calls were served by the primary backend and others by the
\* SQLite fallback.
C2_CountEqualsSuccessfulSubscribes ==
    [][(/\ ncount' = ncount + 1
        /\ OnlyDistinctSuccessfulSubscribes
        /\ lastCount'.success
        /\ lastCount'.backend = IF use_azure THEN "azure" ELSE "sqlite")
          => lastCount'.count = Cardinality(Rets)]_vars

(***************************************************************************)
(* C3                                                                      *)
(***************************************************************************)
\* C3 as stated: when the write to the primary backend fails with an error
\* other than a duplicate error, subscribe writes the record to SQLite and
\* returns success with storage_backend = "sqlite" (a failure of SQLite
\* itself is left aside); a duplicate error from the primary is re-raised
\* without touching SQLite.
C3_FallbackReturnsSuccess ==
    \A i \in Rets :
        /\ (history[i].fellBack /\ history[i].result # "error")
              => (history[i].result = "success" /\ history[i].backend = "sqlite")
        /\ (history[i].result = "duplicate"
              /\ history[i].origin = "ResourceExistsError")
              => history[i].touched = {"azure"}

\* C3 amended: when the primary backend is configured and its write fails
\* with an error other than a duplicate error, subscribe runs the SQLite
\* path instead and the caller gets the outcome of that path: success with
\* storage_backend = "sqlite" and the record in SQLite, the duplicate error
\* (409) when SQLite already holds the address as active, or the storage
\* error (500) of SQLite. The failure of the primary is never what the
\* caller gets: a call that touched only the primary ends in success or in
\* a duplicate error. A duplicate error from the primary is re-raised
\* without touching SQLite.
C3_FallbackRunsSqlitePath ==
    \A i \in Rets :
        /\ history[i].fellBack
              => /\ history[i].touched = {"azure", "sqlite"}
                 /\ history[i].result = "success"
                       => /\ history[i].backend = "sqlite"
                          /\ history[i].status = 200
                          /\ RecordsOf(sqlite, history[i].email) # {}
                 /\ history[i].result = "duplicate"
                       => /\ history[i].status = 409
                          /\ history[i].origin \in
                                {"DuplicateSubscriptionError", "IntegrityError"}
                          /\ RecordsOf(sqlite, history[i].email) # {}
                 /\ history[i].result = "error"
                       => /\ history[i].status = 500
                          /\ history[i].origin = "sqlite3.Error"
        /\ history[i].touched = {"azure"}
              => /\ history[i].result \in {"success", "duplicate"}
                 /\ ~history[i].fellBack
        /\ (history[i].result = "duplicate"
              /\ history[i].origin = "ResourceExistsError")
              => history[i].touched = {"azure"}

\* A call whose primary write failed and which returned success from SQLite,
\* and a call the primary answered with a duplicate error.
C3_Witness ==
    /\ \E i \in Rets : /\ history[i].fellBack
                       /\ history[i].result = "success"
                       /\ history[i].backend = "sqlite"
    /\ \E i \in Rets : /\ history[i].result = "duplicate"
                       /\ history[i].origin = "ResourceExistsError"

(***************************************************************************)
(* C4                                                                      *)
(***************************************************************************)
\* The step answers a subscribe call with a duplicate error, and nothing
\* else happened to the address since the call started.
AnswersDuplicate ==
    LET ev == history'[Len(history')]
        calls == {k \in 1..Len(history) : /\ history[k].op = "call"
                                          /\ history[k].proc = ev.proc}
        call == CHOOSE k \in calls : \A m \in calls : m <= k
    IN  /\ Len(history') = Len(history) + 1
        /\ ev.op = "ret"
        /\ ev.result = "duplicate"
        /\ \A k \in (call + 1)..Len(history) : history[k].email # ev.email

\* C4: subscribe fails with a duplicate error only when the address has a
\* record with status 'active' (in either store) at that moment; a call that
\* finds the record inactive ends with the record active again.
C4_DuplicateOnlyIfActive ==
    [][AnswersDuplicate
         => LET e == history'[Len(history')].email
            IN  \/ \E i \in RecordsOf(azure, e) : azure[i].status = "active"
                \/ \E i \in RecordsOf(sqlite, e) : sqlite[i].status = "active"]_vars

(***************************************************************************)
(* C5                                                                      *)
(***************************************************************************)
\* No two records of the table hold the same normalized address.
OneRecordPerAddress(tbl) ==
    \A i \in 1..Len(tbl) : \A j \in 1..Len(tbl) :
        DifferOnlyInCaseOrPadding(tbl[i].email, tbl[j].email) => i = j

\* C5: in every reachable state, after any sequence and interleaving of
\* subscribe calls, each store holds at most one subscriber record per
\* normalized address; the store's key / UNIQUE constraint is what rejects
\* the second insert of two calls that both passed the existence check.
C5_OneRecordPerAddress ==
    /\ OneRecordPerAddress(azure)
    /\ OneRecordPerAddress(sqlite)
    /\ \A i \in Rets :
          history[i].origin \in {"ResourceExistsError", "IntegrityError"}
              => history[i].result = "duplicate"

\* An INSERT was rejected by the UNIQUE constraint after the call had passed
\* the existence check, and the address has one record.
C5_Witness ==
    \E i \in Rets : /\ history[i].origin = "IntegrityError"
                    /\ history[i].result = "duplicate"
                    /\ Cardinality(RecordsOf(sqlite, history[i].email)) = 1

(***************************************************************************)
(* C6                                                                      *)
(***************************************************************************)
\* The calls answered at i and at j ran concurrently, for one address that
\* was unknown before (any other call for it up to then had ended with a
\* storage error before either of the two started), both ended in the same
\* store and neither ended with a storage error.
ConcurrentOnUnknownAddress(i, j) ==
    /\ i < j
    /\ history[i].proc # history[j].proc
    /\ history[i].email = history[j].email
    /\ CallOf(j) < i
    /\ \A k \in 1..(j - 1) :
          (/\ history[k].op = "call"
           /\ history[k].email = history[i].email
           /\ k \notin {CallOf(i), CallOf(j)})
              => \E r \in Rets : /\ CallOf(r) = k
                                 /\ r < CallOf(i)
                                 /\ r < CallOf(j)
                                 /\ history[r].result = "error"
    /\ ServedBy(history[i]) = ServedBy(history[j])
    /\ history[i].result # "error"
    /\ history[j].result # "error"

C7_BadBodyIs400 ==
    lastReq.body.kind \in {"malformed", "null", "empty_object", "no_email",
                           "email_null", "email_empty"}
        => (lastReq.resp.status = 400 /\ ~lastReq.resp.success)

(***************************************************************************)
(* C8                                                                      *)
(***************************************************************************)
\* The address fails validation by the claim's three reasons: empty, not of
\* the shape local@domain (no "@" at all), or longer than the cap.
FailsValidation(e) ==
    LET n == TrimmedCore(e)
    IN  \/ n = <<>>
        \/ \A i \in 1..Len(n) : n[i] # "@"
        \/ Len(n) > MaxEmailLen

\* C8: a subscribe call with an address that fails validation (empty, not
\* matching the pattern, longer than 254 characters after normalization)
\* ends with a validation error (400 at the route) before any backend is
\* read or written: both stores are left as they were and no backend
\* operation is started. (The request fails earlier, with 500, when the
\* storage object cannot be constructed.)
C8_InvalidAddressTouchesNoBackend ==
    [][(/\ ncalls' = ncalls + 1
        /\ lastReq'.body.kind = "email_string"
        /\ FailsValidation(lastReq'.body.email))
          => /\ azure' = azure
             /\ sqlite' = sqlite
             /\ pc' = pc
             /\ history' = history
             /\ ~lastReq'.resp.success
             /\ \/ lastReq'.resp.status = 400
                \/ /\ lastReq'.resp.status = 500
                   /\ lastReq'.resp.error =
                        "Failed to process subscription. Please try again later."]_vars

\* An over-long address was refused with 400 while both stores held records.
C8_Witness ==
    /\ lastReq.body.kind = "email_string"
    /\ Len(lastReq.body.email) > MaxEmailLen
    /\ lastReq.resp.status = 400
    /\ azure # <<>>
    /\ sqlite # <<>>

(***************************************************************************)
(* C10                                                                     *)
(***************************************************************************)
\* C10: every content-cache refresh writes and returns a non-empty
\* 'articles' list, for every combination of outcomes of the external
\* sources, all fetches raising and fetches that succeed without any
\* parsable article element included.
C10_RefreshYieldsArticles ==
    aggPc = "done"
        => /\ cache_data.kind = "doc"
           /\ cache_data.articles # <<>>
           /\ cacheFile.kind = "doc"
           /\ cacheFile.articles # <<>>

\* A refresh cycle is between its start and its return.
Refreshing == {"techcrunch", "mit_tech", "hackernews", "mit_sloan", "extract",
               "assemble", "save_open", "save_dump", "done"}

\* C11: a request that reads data_cache.json while a refresh is running
\* and no step of the refresh has failed parses a complete document (the
\* previous one or the new one) and, the database being reachable, is
\* answered with 200.
C11_ReaderSeesCompleteDocument ==
    (lastHealth.during \in Refreshing /\ lastHealth.database # "error")
        => (lastHealth.cache = "doc" /\ lastHealth.status = 200)

\* C12: whenever the fetch of one of the four sources fails, its fetch
\* function returns a non-empty list of fallback entries, at most `limit`
\* long.
C12_FailedFetchReturnsFallback ==
    \A src \in Sources :
        (outcomes[src].asked /\ outcomes[src].raised)
            => (outcomes[src].returned >= 1
                /\ outcomes[src].returned <= LimitOf(src))

\* C13: no failure of a source or of an extraction leaves
\* fetch_all_articles: the function raises only out of save_cache, after
\* the document was built, and when it returns, the document it built is
\* the content of the cache file.
C13_SourceFailuresDoNotPropagate ==
    /\ aggPc = "raised" => cache_data.kind = "doc"
    /\ aggPc = "done" => (cache_data.kind = "doc" /\ cacheFile = cache_data)

\* A cycle in which all four sources failed and one extraction failed has
\* returned its document.
C13_Witness ==
    /\ aggPc = "done"
    /\ \A src \in Sources : outcomes[src].raised
    /\ \E i \in 1..Len(all_articles) : all_articles[i].full_text = ""
    /\ cacheFile = cache_data
    /\ cacheFile.kind = "doc"

\* The dict a is one of the dicts this cycle collected.
OfThisCycle(a) == \E k \in 1..Len(all_articles) : all_articles[k] = a

\* C14: after a completed refresh cycle the cache file holds exactly the
\* five fields of that cycle's result: its timestamp, a featured entry of
\* this cycle (or the default one when nothing was collected), at most six
\* articles and the ai_ml_articles, all collected in this cycle, and the
\* sources of this cycle; nothing of the previous document is left.
C14_DocumentIsThisCyclesResult ==
    aggPc = "done" =>
        /\ DOMAIN cacheFile = {"kind", "timestamp", "featured", "articles",
                               "ai_ml_articles", "sources_used"}
        /\ cacheFile.timestamp = ncycles
        /\ Len(cacheFile.articles) <= GridSize
        /\ \A i \in 1..Len(cacheFile.articles) :
              OfThisCycle(cacheFile.articles[i])
        /\ \A i \in 1..Len(cacheFile.ai_ml_articles) :
              OfThisCycle(cacheFile.ai_ml_articles[i])
        /\ IF all_articles = <<>>
           THEN cacheFile.featured
                   = [GetDefaultFeatured EXCEPT !.author_title = "Tech Analyst"]
           ELSE OfThisCycle(cacheFile.featured)
        /\ cacheFile.sources_used
              = {all_articles[k].source : k \in 1..Len(all_articles)}

\* A cycle that collected more than six articles has replaced the previous
\* document.
C14_Witness ==
    /\ aggPc = "done"
    /\ Len(all_articles) > GridSize
    /\ Len(cacheFile.articles) = GridSize
    /\ cacheFile.timestamp = 1

\* C15: the started thread runs a first cycle before it sleeps, and a
\* cycle that raised is followed by another cycle (up to the number of
\* cycles the model follows).
C15_FailedCycleIsFollowedByAnother ==
    /\ [](autoPc \in {"loop", "sleep"} => ncycles >= 1)
    /\ (autoPc = "scheduled") ~> (ncycles = 1)
    /\ \A n \in 1..(MaxAutoCycles - 1) :
          (ncycles = n /\ autoResult = "failed") ~> (ncycles = n + 1)

\* The scheduled job has run after the first cycle raised in open(): both
\* cycles failed there and the default document is still in the file.
C15_Witness ==
    /\ ncycles = 2
    /\ autoPc = "sleep"
    /\ untilDue = ChecksPerInterval
    /\ autoResult = "failed"
    /\ cacheFile = DefaultCacheDoc

\* The number of pages the session has requested: its rows in visitors.
PagesRequested(d, sid) ==
    Cardinality({i \in 1..Len(d.visitors) : d.visitors[i].session_id = sid})

\* This step is a successful /api/track-session call with action 'end' for
\* a session that has a row.
EndsSession ==
    /\ lastApi'.at = nops + 1
    /\ lastApi'.route = "/api/track-session"
    /\ lastApi'.action = "end"
    /\ lastApi'.status = 200
    /\ SessionRows(db, lastApi'.session_id) # {}

\* C16: when a session is ended, the bounce value stored in its row is 1
\* if the session requested exactly one page and 0 if it requested two or
\* more.
C16_BounceIffSinglePage ==
    [][EndsSession =>
         \A i \in SessionRows(db', lastApi'.session_id) :
            db'.user_sessions[i].bounce_rate
              = IF PagesRequested(db, lastApi'.session_id) = 1 THEN 1 ELSE 0]_vars

\* Every row of old is, unchanged and at its place, a row of new.
KeepsRows(old, new) ==
    /\ Len(old) <= Len(new)
    /\ \A i \in 1..Len(old) : new[i] = old[i]

\* C17 as stated: no step modifies or deletes a visit, event or session
\* row once it has been written.
C17_RowsAppendOnly ==
    [][/\ KeepsRows(db.visitors, db'.visitors)
       /\ KeepsRows(db.user_events, db'.user_events)
       /\ KeepsRows(db.user_sessions, db'.user_sessions)]_vars

\* C17, amended: visit and event rows are never modified or deleted;
\* session rows are never deleted and keep their identity (session_id,
\* start_time, landing_page, referrer_url), while their total_pages only
\* grows and their other columns are rewritten by later requests.
C17_VisitsAndEventsAppendOnly ==
    [][/\ KeepsRows(db.visitors, db'.visitors)
       /\ KeepsRows(db.user_events, db'.user_events)
       /\ Len(db.user_sessions) <= Len(db'.user_sessions)
       /\ \A i \in 1..Len(db.user_sessions) :
             LET old == db.user_sessions[i]
                 new == db'.user_sessions[i]
             IN  /\ new.session_id = old.session_id
                 /\ new.start_time = old.start_time
                 /\ new.landing_page = old.landing_page
                 /\ new.referrer_url = old.referrer_url
                 /\ new.total_pages >= old.total_pages]_vars

\* A session with two visits beside an event: its row was rewritten by the
\* second visit, the visit and event rows are in place.
C17_Witness ==
    /\ Len(db.visitors) = 2
    /\ Len(db.user_events) = 1
    /\ \E i \in 1..Len(db.user_sessions) :
          /\ db.user_sessions[i].total_pages = 1
          /\ db.visitors[1].session_id = db.user_sessions[i].session_id
          /\ db.visitors[2].session_id = db.user_sessions[i].session_id

ReportRoutes == {"/api/analytics", "/api/analytics/advanced"}

\* This step answers a report request.
IsReport ==
    /\ lastApi'.at = nops + 1
    /\ lastApi'.route \in ReportRoutes
    /\ lastApi'.status = 200

\* This step answers a report request that follows, with no recorder
\* operation in between, an answered request for the same report.
RepeatsReport ==
    /\ IsReport
    /\ lastApi.route = lastApi'.route
    /\ lastApi.status = 200

\* C19 as stated: a report changes no row, and a report repeated with no
\* recorder operation in between yields the same counts.
C19_RepeatedReportSameCounts ==
    [][/\ IsReport => db' = db
       /\ RepeatsReport => lastApi'.report = lastApi.report]_vars

\* C19, amended: a report changes no row, and a report repeated with no
\* recorder operation in between yields the same counts when both are
\* evaluated on the same day.
C19_ReportsAreReadOnly ==
    [][/\ IsReport => db' = db
       /\ (RepeatsReport /\ lastApi'.day = lastApi.day)
            => lastApi'.report = lastApi.report]_vars

\* /api/analytics was answered twice in a row over a table with a visit.
C19_Witness ==
    /\ lastApi.route = "/api/analytics"
    /\ lastApi.after = "/api/analytics"
    /\ lastApi.status = 200
    /\ lastApi.report.total_views = 1
    /\ Len(db.visitors) = 1

\* The JSON API routes among the analytics routes.
JsonRoutes == {"/api/analytics", "/api/analytics/advanced",
               "/api/track-event", "/api/track-session"}

\* C20: whatever goes wrong inside a JSON API route (a database error, a
\* body that is not a JSON object), the route itself answers with a JSON
\* document; no exception reaches the framework.
C20_ApiRoutesAnswerJson ==
    lastApi.route \in JsonRoutes => lastApi.json

\* The rows of visitors written for request r.
VisitorRowsOf(r) == {i \in 1..Len(db.visitors) : db.visitors[i].req = r}

\* C18: every answered page request has exactly one committed visitor
\* row, however the requests of the threads interleave.
C18_OneVisitorRowPerRequest ==
    \A r \in served : Cardinality(VisitorRowsOf(r)) = 1

\* This step is a run of init_db or migrate_db.
RunsInitOrMigrate ==
    /\ lastApi'.at = nops + 1
    /\ lastApi'.route \in {"init_db", "migrate_db"}

\* The rows of every table.
RowsOf(d) == [t \in DOMAIN d \ {"tables"} |-> d[t]]

\* C21: init_db leaves a database with the visitors, articles and
\* user_sessions tables among all its tables, and a run of init_db or
\* migrate_db drops no table and changes no row; on an initialized
\* database it changes nothing.
C21_InitDbCreatesAndKeeps ==
    [][RunsInitOrMigrate =>
         /\ db.tables \subseteq db'.tables
         /\ RowsOf(db') = RowsOf(db)
         /\ lastApi'.route = "init_db" => db'.tables = AllTables
         /\ db.tables = AllTables => db' = db]_vars

\* init_db has run again over a database that holds a visit and a session.
C21_Witness ==
    /\ lastApi.route = "init_db"
    /\ lastApi.after \in Pages
    /\ db.tables = AllTables
    /\ Len(db.visitors) >= 1
    /\ Len(db.user_sessions) >= 1

\* The step is one call of ContentAgent.
AgentCalled == agent'.calls = agent.calls + 1

\* C22: fetch_articles(limit) returns exactly limit articles whatever the
\* topic pages answer, so run never leaves through "No articles fetched";
\* and run leaves data_cache.json as it was unless update_html_page
\* succeeded.
C22_FetchFillsAndCacheFollowsPage ==
    [][AgentCalled =>
          /\ Len(agent'.fetched) = agent'.limit
          /\ agent'.op = "run" =>
                /\ agent'.result # "no_articles"
                /\ agent'.html_io # "ok" => cacheFile' = cacheFile
                /\ cacheFile' # cacheFile => agent'.html_io = "ok"]_vars

\* run took one live article and two fallback articles, update_html_page
\* failed while writing the page, run returned False and the cache file
\* still holds the document the application wrote at start-up.
C22_Witness ==
    /\ agent.op = "run"
    /\ agent.html_io = "write_fails"
    /\ agent.result = "false"
    /\ Len(agent.fetched) = RunLimit
    /\ agent.fetched[1].origin = "live"
    /\ agent.fetched[2].origin = "fallback"
    /\ cacheFile = DefaultCacheDoc

(***************************************************************************)
(* C23                                                                     *)
(***************************************************************************)
\* The step ends a request of thread p that subscribe had answered.
LeavesTrack(p) == pc[p] = "track" /\ pc'[p] # "track"

\* The store of that name.
StoreOf(backend) == IF backend = "azure" THEN azure' ELSE sqlite'

\* C23: once subscribe has returned, the route answers 200 and the
\* subscriber record stays stored, untouched, whether or not the
\* 'newsletter_subscribe' funnel row gets written (no session cookie, or
\* the insert fails); and a funnel row is written only by a request that is
\* answered 200.
C23_SubscriptionIndependentOfTracking ==
    [][\A p \in Procs :
          /\ LeavesTrack(p) =>
                LET ret == history'[Len(history')]
                IN  /\ ret.op = "ret"
                    /\ ret.status = 200
                    /\ azure' = azure
                    /\ sqlite' = sqlite
                    /\ RecordsOf(StoreOf(ret.backend), ret.email) # {}
          /\ funnel'[p] # funnel[p] =>
                /\ LeavesTrack(p)
                /\ funnel'[p] = funnel[p] + 1
                /\ history'[Len(history')].status = 200]_vars

\* A subscription was answered 200 and its record is stored although no
\* funnel row was written for it; a later request was answered 409 and the
\* latest one 400, and they wrote no funnel row either.
C23_Witness ==
    /\ funnel[1] = 0
    /\ \E i \in Rets :
          /\ history[i].status = 200
          /\ RecordsOf(IF history[i].backend = "azure" THEN azure ELSE sqlite,
                       history[i].email) # {}
          /\ \E j \in Rets : j > i /\ history[j].status = 409
    /\ lastReq.resp.status = 400

\* C24: in every state, the total_pages of each session row equals the
\* number of page requests made in the session, that is the number of
\* visitors rows that carry its session id.
C24_TotalPagesCountsRequests ==
    \A sid \in SessionIds :
        \A i \in SessionRows(db, sid) :
            db.user_sessions[i].total_pages = PagesRequested(db, sid)

(***************************************************************************)
(* C26, C30                                                                *)
(***************************************************************************)
\* The step answers an article request.
ArticleAnswered == lastApi'.at = nops + 1 /\ lastApi'.route = "/article/<slug>"

\* The number of funnel rows of a step a session has.
FunnelRows(d, sid, step) ==
    Cardinality({i \in 1..Len(d.conversion_funnels) :
                    /\ d.conversion_funnels[i].session_id = sid
                    /\ d.conversion_funnels[i].funnel_step = step})

\* C26: an article request answered 200 adds exactly one 'article_view'
\* funnel row for the session of the request, also when the request carries
\* no session cookie yet; one answered 404 adds no page_views row, no view
\* and no 'article_view' funnel row.
C26_ArticleViewRecordedOnce ==
    [][ArticleAnswered =>
          /\ lastApi'.status = 200 =>
                FunnelRows(db', lastApi'.report.session, "article_view")
                  = FunnelRows(db, lastApi'.report.session, "article_view") + 1
          /\ lastApi'.status = 404 =>
                /\ db'.page_views = db.page_views
                /\ \A sid \in SessionIds :
                      FunnelRows(db', sid, "article_view")
                        = FunnelRows(db, sid, "article_view")]_vars

\* The featured entry and the entries of the list, in the order the route
\* looks at them.
CacheEntries(file) ==
    IF file.kind = "doc" THEN <<file.featured>> \o file.articles ELSE <<>>

\* The entry that is to be served for a slug: the first entry whose slug
\* field equals it, else the first one whose slug field starts with its
\* first SlugPrefixLen characters; 0 when there is none.
EntryFor(file, slug) ==
    LET entries == CacheEntries(file)
        exact  == {i \in 1..Len(entries) :
                      "slug" \in DOMAIN entries[i] /\ entries[i].slug = slug}
        prefix == {i \in 1..Len(entries) :
                      /\ "slug" \in DOMAIN entries[i]
                      /\ StartsWith(entries[i].slug, Take(slug, SlugPrefixLen))}
    IN  IF exact # {} THEN FirstOf(exact) ELSE FirstOf(prefix)

\* C30: the entry served for /article/<slug> has a slug field that equals
\* the trimmed slug or starts with its first 20 characters, an exact match
\* before a prefix match and the featured entry before the list; the
\* answer is 404 exactly when no entry qualifies.
C30_ServedEntryMatchesSlug ==
    [][ArticleAnswered =>
          LET sent == lastApi'.report
              want == EntryFor(cacheFile, sent.slug)
          IN  /\ lastApi'.status = 404 <=> want = 0
              /\ lastApi'.status = 200 =>
                    /\ "slug" \in DOMAIN sent.article
                    /\ sent.at + 1 = want]_vars

(***************************************************************************)
(* C25                                                                     *)
(***************************************************************************)
\* The article page requests answered so far whose trimmed slug is the
\* article id: the completed views of that id.
CompletedViews(article_id) ==
    {n \in served :
        \E i \in 1..Len(db.visitors) :
            /\ db.visitors[i].req = n
            /\ \E r \in ArticleRequests :
                  /\ r.url = db.visitors[i].page_url
                  /\ StripDashes(r.raw) = article_id}

\* C25: whenever no article view is in progress, every article id that was
\* viewed has exactly one page_views row, and the view_count of that row is
\* the number of completed views of the id, however the views of concurrent
\* threads interleave.
C25_ViewCountCountsViews ==
    (\A p \in Procs : tpc[p].pc = "idle") =>
        \A r \in ArticleRequests :
            LET article_id == StripDashes(r.raw)
                rows == ViewRows(db, article_id)
            IN  CompletedViews(article_id) # {} =>
                    /\ Cardinality(rows) = 1
                    /\ \A i \in rows :
                          db.page_views[i].view_count
                            = Cardinality(CompletedViews(article_id))

(***************************************************************************)
(* C27                                                                     *)
(***************************************************************************)
\* The step is a call of /api/track-session with a JSON object that names a
\* session.
TracksSession ==
    /\ lastApi'.at = nops + 1
    /\ lastApi'.route = "/api/track-session"
    /\ lastApi'.session_id # "none"
    /\ lastApi'.status # 400

\* C27: a session row that is inactive stays inactive in every step (page
\* request, track-event, track-session); track-session never adds a session
\* row, and for a session id without a row or an action other than 'end'
\* and 'update' it changes nothing and answers 200 (500 only when a
\* statement of sqlite3 raises).
C27_SessionEndIsFinal ==
    [][/\ \A i \in 1..Len(db.user_sessions) :
             db.user_sessions[i].is_active = 0 =>
                /\ i <= Len(db'.user_sessions)
                /\ db'.user_sessions[i].session_id = db.user_sessions[i].session_id
                /\ db'.user_sessions[i].is_active = 0
       /\ TracksSession =>
             /\ Len(db'.user_sessions) = Len(db.user_sessions)
             /\ (\/ SessionRows(db, lastApi'.session_id) = {}
                 \/ lastApi'.action \notin {"end", "update"}) =>
                    /\ db' = db
                    /\ lastApi'.status \in {200, 500}]_vars

\* Session s1 was ended; then /api/track-session was called with 'start'
\* for it and answered 200, and the row is still inactive.
C27_Witness ==
    /\ lastApi.route = "/api/track-session"
    /\ lastApi.action = "start"
    /\ lastApi.session_id = "s1"
    /\ lastApi.status = 200
    /\ lastApi.after = "/api/track-session"
    /\ Len(db.user_sessions) = 1
    /\ db.user_sessions[1].session_id = "s1"
    /\ db.user_sessions[1].is_active = 0

(***************************************************************************)
(* C28, C29                                                                *)
(***************************************************************************)
\* The latest operation was a run of get_conversion_funnel.
FunnelReported == lastApi.route = "get_conversion_funnel"

\* The window of the latest run.
ReportedWindow == IF lastApi.action = "day" THEN DayWindow ELSE WeekWindow

\* C28: every rate get_conversion_funnel reports over the funnel rows the
\* recorder wrote lies between 0 and 100 percent (rates are in hundredths
\* of a percent).
C28_RatesAreWithinHundred ==
    FunnelReported =>
        \A rate \in {"homepage_to_article_rate", "article_completion_rate",
                     "external_click_rate"} :
            /\ lastApi.report[rate] >= 0
            /\ lastApi.report[rate] <= 10000

\* C29: get_conversion_funnel reports for each step the number of funnel
\* rows of that step inside the window, whatever the table holds.
C29_FunnelReportsRowCounts ==
    FunnelReported =>
        /\ lastApi.report.homepage_visits
             = FunnelCount(db, lastApi.day, ReportedWindow, "homepage")
        /\ lastApi.report.article_views
             = FunnelCount(db, lastApi.day, ReportedWindow, "article_view")
        /\ lastApi.report.full_scrolls
             = FunnelCount(db, lastApi.day, ReportedWindow, "scroll_100")
        /\ lastApi.report.external_clicks
             = FunnelCount(db, lastApi.day, ReportedWindow, "external_click")

====
